---- MODULE Spec2Model ----
(***************************************************************************)
(* Model of the planty-wiki SQLite worker (sqlite-opfs-worker.js): the     *)
(* message handler, the cancelled-id bookkeeping, the lazily created       *)
(* database handle and the storage operations on the pages, links and      *)
(* pages_fts tables.                                                       *)
(*                                                                         *)
(* Texts are sequences of one-character strings.  The tokens "X512",       *)
(* "X1024" and "X50000" stand for a run of that many 'x' characters, so    *)
(* that the length limits of the code keep their real values.              *)
(***************************************************************************)
EXTENDS Integers, Sequences, FiniteSets, TLC

\* ------------------------------------------------------------------------
\* Bounds of the model
\* ------------------------------------------------------------------------
MaxRequests == 2        \* requests of a run of the gateway workload
MaxStoreRequests == 2   \* requests of a run of the store and query workloads
MaxCancels == 2         \* cancel notices of a run of the gateway workload
MaxEarly == 2           \* requests that arrive before the initialization settles
MaxBulk == 2            \* records of a bulk payload
MaxCorruptions == 1     \* times the storage engine corrupts pages_fts
MaxRows == 202          \* rows a query yields
MaxCalls == 3           \* calls of callWorker
MaxSources == 102       \* documents that link to one target
MaxWorkerErrors == 1    \* error events of the worker

\* ------------------------------------------------------------------------
\* Program constants
\* ------------------------------------------------------------------------
MAX_QUERY_ROWS == 200
MaxPathLength == 512
MaxTitleLength == 1024
MaxBodyLength == 50000
MAX_BACKLINKS == 100
MaxAttempts == 2

\* ------------------------------------------------------------------------
\* Texts
\* ------------------------------------------------------------------------
NoValue == <<"undefined">>

Whitespace == {" "}

TokLen(c) ==
  CASE c = "X512" -> 512
    [] c = "X1024" -> 1024
    [] c = "X50000" -> 50000
    [] OTHER -> 1

\* The length of the first n tokens of s, and String.prototype.length.
RECURSIVE PrefixLen(_, _)
PrefixLen(s, n) == IF n = 0 THEN 0 ELSE TokLen(s[n]) + PrefixLen(s, n - 1)

TextLen(s) == PrefixLen(s, Len(s))

\* The value of a singleton set: binds an intermediate result once.
Only(S) == CHOOSE x \in S : TRUE

\* String.prototype.trim: the text between its first and its last character
\* that is not whitespace.
Trim(s) ==
  LET kept == {i \in 1..Len(s) : s[i] \notin Whitespace} IN
    IF kept = {} THEN <<>>
    ELSE SubSeq(s, CHOOSE i \in kept : \A j \in kept : i <= j,
                   CHOOSE i \in kept : \A j \in kept : i >= j)

\* String(value) of a field that may be missing: null/undefined become "".
AsText(value) == IF value = NoValue THEN <<>> ELSE value

\* A check that trims and refuses nothing.
TrimWithoutChecks(value, maxLength, allowEmpty) == Trim(AsText(value))

\* extractAndValidateText: the trimmed text, or NoValue (null) when rejected.
ExtractAndValidateText(value, maxLength, allowEmpty) ==
  Only({IF trimmed = <<>> /\ ~allowEmpty THEN NoValue
        ELSE IF TextLen(trimmed) > maxLength THEN NoValue
        ELSE trimmed : trimmed \in {Trim(AsText(value))}})

PagesPrefix == <<"/", "p", "a", "g", "e", "s", "/">>

RECURSIVE StripLeadingSlashes(_)
StripLeadingSlashes(s) ==
  IF s # <<>> /\ Head(s) = "/" THEN StripLeadingSlashes(Tail(s)) ELSE s

\* normalizeWikiLabelToPath: NoValue stands for null.
NormalizeWikiLabelToPath(label) ==
  Only({IF trimmed = <<>> THEN NoValue
        ELSE IF Head(trimmed) = "/"
          THEN IF SubSeq(trimmed, 1, IF Len(trimmed) < 7 THEN Len(trimmed) ELSE 7) = PagesPrefix
                 THEN trimmed
                 ELSE PagesPrefix \o StripLeadingSlashes(trimmed)
          ELSE PagesPrefix \o trimmed : trimmed \in {Trim(label)}})

\* First position k >= j of s holding "[" or "]", or Len(s) + 1.
RECURSIVE LabelEnd(_, _)
LabelEnd(s, j) ==
  IF j > Len(s) \/ s[j] \in {"[", "]"} THEN j ELSE LabelEnd(s, j + 1)

\* The labels matched by /\[\[([^[\]]+)\]\]/g from position i on, in order.
RECURSIVE MatchAll(_, _)
MatchAll(s, i) ==
  IF i + 1 > Len(s) THEN <<>>
  ELSE IF s[i] = "[" /\ s[i + 1] = "["
    THEN LET k == LabelEnd(s, i + 2) IN
           IF k > i + 2 /\ k + 1 <= Len(s) /\ s[k] = "]" /\ s[k + 1] = "]"
             THEN <<SubSeq(s, i + 2, k - 1)>> \o MatchAll(s, k + 2)
             ELSE MatchAll(s, i + 1)
    ELSE MatchAll(s, i + 1)

\* A loop over the matches that keeps every label, seen before or not.
RECURSIVE CollectEveryLink(_, _)
CollectEveryLink(labels, seen) ==
  IF labels = <<>> THEN <<>>
  ELSE Only({IF raw = <<>> THEN CollectEveryLink(rest, seen)
             ELSE <<[targetPath |-> NormalizeWikiLabelToPath(raw), display |-> raw]>>
                    \o CollectEveryLink(rest, seen) :
             raw \in {Trim(Head(labels))}, rest \in {Tail(labels)}})

RECURSIVE CollectLinks(_, _)
CollectLinks(labels, seen) ==
  IF labels = <<>> THEN <<>>
  ELSE Only({IF raw = <<>> \/ raw \in seen
               THEN CollectLinks(rest, seen)
             ELSE IF NormalizeWikiLabelToPath(raw) = NoValue
               THEN CollectLinks(rest, seen \cup {raw})
             ELSE <<[targetPath |-> NormalizeWikiLabelToPath(raw), display |-> raw]>>
                    \o CollectLinks(rest, seen \cup {raw}) :
             raw \in {Trim(Head(labels))}, rest \in {Tail(labels)}})

\* extractWikiLinksFromBody
ExtractWikiLinksFromBody(body) ==
  Only({CollectLinks(labels, {}) : labels \in {MatchAll(AsText(body), 1)}})

\* ------------------------------------------------------------------------
\* The store: a database value is [pages, links, fts, ftsState].
\*   pages    : function from stored paths to [title, body, updatedAt]
\*   links    : set of [source, target, display]   (primary key: the triple)
\*   fts      : set of [path, title, body] entries of pages_fts
\*   ftsState : "ok", or "corrupt" when every write to pages_fts raises
\*              SQLITE_CORRUPT_VTAB, or "none", "ai", "ai-ad" when only
\*              these triggers exist
\* ------------------------------------------------------------------------
EmptyPages == [p \in {} |-> 0]

FtsEntry(path, row) == [path |-> path, title |-> row.title, body |-> row.body]

FtsOf(pgs) == {FtsEntry(p, pgs[p]) : p \in DOMAIN pgs}

\* An INSERT OR IGNORE in place of the upsert: an existing row stays as it is.
InsertPageOrIgnore(db, path, row) ==
  IF path \in DOMAIN db.pages THEN db
  ELSE [db EXCEPT !.pages = [p \in DOMAIN db.pages \cup {path} |->
                              IF p = path THEN row ELSE db.pages[p]],
                  !.fts = @ \cup {FtsEntry(path, row)}]

\* Whether the trigger pages_ai, pages_ad or pages_au exists.  The triggers
\* are created in this order, so those that exist are the first ones.
HasTrigger(db, trigger) ==
  CASE db.ftsState = "none" -> FALSE
    [] db.ftsState = "ai" -> trigger = "ai"
    [] db.ftsState = "ai-ad" -> trigger \in {"ai", "ad"}
    [] OTHER -> TRUE

\* INSERT ... ON CONFLICT(path) DO UPDATE, with the pages_ai trigger for a
\* new row and the pages_au trigger for a row that was there.
UpsertPage(db, path, row) ==
  [db EXCEPT
     !.pages = [p \in DOMAIN db.pages \cup {path} |-> IF p = path THEN row ELSE db.pages[p]],
     !.fts = IF path \in DOMAIN db.pages
               THEN (IF HasTrigger(db, "au")
                       THEN (db.fts \ {FtsEntry(path, db.pages[path])}) \cup {FtsEntry(path, row)}
                       ELSE db.fts)
               ELSE (IF HasTrigger(db, "ai") THEN db.fts \cup {FtsEntry(path, row)} ELSE db.fts)]

\* A DELETE on a table that has no pages_ad trigger.
DeletePageWithoutTrigger(db, path) ==
  IF path \in DOMAIN db.pages
    THEN [db EXCEPT !.pages = [p \in DOMAIN db.pages \ {path} |-> db.pages[p]]]
    ELSE db

\* DELETE FROM pages WHERE path = $path, with the pages_ad trigger.
DeletePage(db, path) ==
  IF path \in DOMAIN db.pages
    THEN [db EXCEPT
            !.pages = [p \in DOMAIN db.pages \ {path} |-> db.pages[p]],
            !.fts = IF HasTrigger(db, "ad") THEN db.fts \ {FtsEntry(path, db.pages[path])}
                    ELSE db.fts]
    ELSE db

\* A transaction that does not empty pages first.
KeepAllPages(db) == db

\* DELETE FROM pages, with the pages_ad trigger on every row.
DeleteAllPages(db) ==
  [db EXCEPT !.pages = EmptyPages,
             !.fts = IF HasTrigger(db, "ad") THEN db.fts \ FtsOf(db.pages) ELSE db.fts]

\* A statement on pages that fires a trigger fails while pages_fts is corrupt.
TriggerFails(db) == db.ftsState = "corrupt"

ToSet(q) == {q[i] : i \in 1..Len(q)}

\* The rows insertLinksForSource inserts for a source and a body.
LinkRows(sourcePath, body) ==
  {[source |-> sourcePath, target |-> l.targetPath, display |-> l.display] :
     l \in ToSet(ExtractWikiLinksFromBody(body))}

\* insertLinksForSource: INSERT OR IGNORE of every extracted link.
InsertLinksForSource(db, sourcePath, body) ==
  [db EXCEPT !.links = @ \cup LinkRows(sourcePath, body)]

\* A DELETE that removes a single row of the source.
DeleteOneLinkOfSource(db, sourcePath) ==
  IF \E l \in db.links : l.source = sourcePath
    THEN [db EXCEPT !.links = @ \ {CHOOSE l \in db.links : l.source = sourcePath}]
    ELSE db

\* DELETE FROM links WHERE source_path = $source
DeleteLinksOfSource(db, sourcePath) ==
  [db EXCEPT !.links = {l \in @ : l.source # sourcePath}]

\* replaceLinksForSource; a failure of its DELETE is logged and ignored.
ReplaceLinksForSource(db, sourcePath, body, deleteFails) ==
  InsertLinksForSource(
    IF deleteFails THEN db ELSE DeleteLinksOfSource(db, sourcePath), sourcePath, body)

\* A catch block without ROLLBACK: what the transaction did stays.
KeepCurrent(atBegin, current) == current

\* ROLLBACK: the state of the store at BEGIN comes back.
Rollback(atBegin, current) == atBegin

\* initializeFtsStructures after the drop of rebuildFtsStructures: the index
\* is recreated and backfilled from pages.  When the drop or the creation
\* fails (logged, not raised) the index stays as it was.
RebuildFtsStructures(db, repaired) ==
  IF repaired THEN [db EXCEPT !.fts = FtsOf(db.pages), !.ftsState = "ok"] ELSE db

\* isSqliteCorruptVtabError on the message of the raised error.
IsSqliteCorruptVtabError(error) == error = "SQLITE_CORRUPT_VTAB"

\* The outcome of a handler: the store after it and the envelope it hands to
\* postIfNotCancelled.
Outcome(db, ok, error) == [db |-> db, ok |-> ok, error |-> error]

\* ------------------------------------------------------------------------
\* saveNote.  fault names the statement that raises a storage error:
\* "none", "upsert", "linkDelete" (ignored by the code) or "linkInsert".
\* ------------------------------------------------------------------------
SaveFaults == {"none", "upsert", "linkDelete", "linkInsert"}

\* The statements of handleSaveNote on the validated fields.
SaveValidated(db, path, title, body, updatedAt, fault) ==
  IF TriggerFails(db) THEN Outcome(db, FALSE, "SQLITE_CORRUPT_VTAB")
  ELSE IF fault = "upsert" THEN Outcome(db, FALSE, "storage failure")
  ELSE Only({IF fault = "linkInsert" /\ LinkRows(path, body) # {}
               THEN Outcome(DeleteLinksOfSource(upserted, path), FALSE, "storage failure")
               ELSE Outcome(ReplaceLinksForSource(upserted, path, body, fault = "linkDelete"),
                            TRUE, "") :
             upserted \in {UpsertPage(db, path,
                             [title |-> title, body |-> body, updatedAt |-> updatedAt])}})

SaveNote(db, note, now, fault) ==
  Only({IF path = NoValue \/ title = NoValue \/ body = NoValue
          THEN Outcome(db, FALSE, "Invalid note payload")
          ELSE SaveValidated(db, path, title, body,
                             IF note.updatedAt # NoValue THEN note.updatedAt ELSE now, fault) :
        path \in {ExtractAndValidateText(note.path, MaxPathLength, FALSE)},
        title \in {ExtractAndValidateText(note.title, MaxTitleLength, FALSE)},
        body \in {ExtractAndValidateText(note.body, MaxBodyLength, TRUE)}})

\* ------------------------------------------------------------------------
\* deleteNote.  The path is taken as sent, without trimming.
\* ------------------------------------------------------------------------
DeleteFaults == {"none", "pages", "links"}

\* A deleteNote without its second statement.
DeleteNotePageOnly(db, payload, fault) ==
  IF payload.path = <<>> THEN Outcome(db, FALSE, "Missing note path for delete")
  ELSE IF payload.path \in DOMAIN db.pages /\ TriggerFails(db)
    THEN Outcome(db, FALSE, "SQLITE_CORRUPT_VTAB")
  ELSE IF fault # "none" THEN Outcome(db, FALSE, "storage failure")
  ELSE Outcome(DeletePage(db, payload.path), TRUE, "")

\* A deleteNote that also removes the link rows that point at the path.
DeleteNoteAndTargets(db, payload, fault) ==
  IF payload.path = <<>> THEN Outcome(db, FALSE, "Missing note path for delete")
  ELSE IF payload.path \in DOMAIN db.pages /\ TriggerFails(db)
    THEN Outcome(db, FALSE, "SQLITE_CORRUPT_VTAB")
  ELSE IF fault # "none" THEN Outcome(db, FALSE, "storage failure")
  ELSE Outcome([DeletePage(db, payload.path) EXCEPT
                  !.links = {l \in @ : l.source # payload.path /\ l.target # payload.path}],
               TRUE, "")

DeleteNote(db, payload, fault) ==
  IF payload.path = <<>> THEN Outcome(db, FALSE, "Missing note path for delete")
  ELSE IF payload.path \in DOMAIN db.pages /\ TriggerFails(db)
    THEN Outcome(db, FALSE, "SQLITE_CORRUPT_VTAB")
  ELSE IF fault = "pages" THEN Outcome(db, FALSE, "storage failure")
  ELSE IF fault = "links" THEN Outcome(DeletePage(db, payload.path), FALSE, "storage failure")
  ELSE Outcome(DeleteLinksOfSource(DeletePage(db, payload.path), payload.path), TRUE, "")

\* ------------------------------------------------------------------------
\* loadNotes and listBacklinks: the rows of the result.
\* ------------------------------------------------------------------------
LoadNotes(db) ==
  {[path |-> p, title |-> db.pages[p].title, body |-> db.pages[p].body,
    updatedAt |-> db.pages[p].updatedAt] : p \in DOMAIN db.pages}

\* The place of a character in the byte order of the engine's text
\* comparison; the long tokens stand for runs of "X".
CharRank(c) ==
  CASE c = " " -> 32
    [] c = "/" -> 47
    [] c \in {"0", "1", "2", "3", "4", "5", "6", "7", "8", "9"} -> 48
    [] c = "A" -> 65
    [] c = "B" -> 66
    [] c = "T" -> 84
    [] c = "[" -> 91
    [] c = "]" -> 93
    [] c = "a" -> 97
    [] c = "e" -> 101
    [] c = "g" -> 103
    [] c = "p" -> 112
    [] c = "s" -> 115
    [] OTHER -> 88

\* The reverse comparison.
RECURSIVE PathAfter(_, _)
PathAfter(p, q) ==
  IF p = <<>> THEN FALSE
  ELSE IF q = <<>> THEN TRUE
  ELSE IF CharRank(Head(p)) # CharRank(Head(q)) THEN CharRank(Head(p)) > CharRank(Head(q))
  ELSE PathAfter(Tail(p), Tail(q))

\* ORDER BY path on two paths: the comparison of the texts, byte by byte.
RECURSIVE PathBefore(_, _)
PathBefore(p, q) ==
  IF q = <<>> THEN FALSE
  ELSE IF p = <<>> THEN TRUE
  ELSE IF CharRank(Head(p)) # CharRank(Head(q)) THEN CharRank(Head(p)) < CharRank(Head(q))
  ELSE PathBefore(Tail(p), Tail(q))

\* A handleLoadNotes whose SELECT orders by path descending.
LoadNoteRowsDescending(db) ==
  LET rows == LoadNotes(db)
      place(r) == Cardinality({o \in rows : PathAfter(o.path, r.path)}) + 1
  IN [k \in 1..Cardinality(rows) |-> CHOOSE r \in rows : place(r) = k]

\* handleLoadNotes: the rows pushed by the callback, in the order of the
\* SELECT ... ORDER BY path.
LoadNoteRows(db) ==
  LET rows == LoadNotes(db)
      place(r) == Cardinality({o \in rows : PathBefore(o.path, r.path)}) + 1
  IN [k \in 1..Cardinality(rows) |-> CHOOSE r \in rows : place(r) = k]

\* The paths of the rows of listBacklinks: the join of links with pages on
\* the source, for the trimmed target.
ListBacklinks(db, payload) ==
  IF Trim(payload.path) = <<>> THEN {}
  ELSE {p \in DOMAIN db.pages :
          \E l \in db.links : l.source = p /\ l.target = Trim(payload.path)}

\* The place of an updated_at text in the order of the engine's text
\* comparison: "t0" < "t1" < "t2".
StampRank(stamp) ==
  CASE stamp = <<"t0">> -> 0
    [] stamp = <<"t1">> -> 1
    [] stamp = <<"t2">> -> 2
    [] OTHER -> 3

\* An ORDER BY that puts the older document first.
OlderFirst(x, y) == StampRank(x) < StampRank(y)

\* ORDER BY p.updated_at DESC on two updated_at texts.
NewerFirst(x, y) == StampRank(x) > StampRank(y)

\* FROM links JOIN pages ON p.path = l.source_path WHERE l.target_path =
\* $target: one row per link row whose source has a document.
JoinLinksWithPages(db, target) ==
  {[path |-> l.source, display |-> l.display] :
     l \in {k \in db.links : k.target = target /\ k.source \in DOMAIN db.pages}}

\* GROUP BY p.path: one row per path.
GroupByPath(rows) == {r.path : r \in rows}

\* ORDER BY p.updated_at DESC.  The engine is free in the order of documents
\* with equal updated_at: tiebreak gives every path a different number and
\* stands for that choice.
OrderByUpdatedAt(db, paths, tiebreak) ==
  Only({[i \in 1..Cardinality(paths) |-> CHOOSE q \in paths : place[q] = i] :
        place \in {[q \in paths |->
                     1 + Cardinality({r \in paths :
                           \/ NewerFirst(db.pages[r].updatedAt, db.pages[q].updatedAt)
                           \/ /\ StampRank(db.pages[r].updatedAt)
                                   = StampRank(db.pages[q].updatedAt)
                              /\ tiebreak[r] < tiebreak[q]})]}})

\* The choices the engine has among documents with equal updated_at.
TieBreaks(paths) ==
  {f \in [paths -> 1..Cardinality(paths)] : \A x, y \in paths : x # y => f[x] # f[y]}

\* LIMIT n
Limit(rows, n) == SubSeq(rows, 1, IF Len(rows) < n THEN Len(rows) ELSE n)

\* The paths of the rows handleListBacklinks returns, in their order.
ListBacklinkRows(db, payload, tiebreak) ==
  IF Trim(payload.path) = <<>> THEN <<>>
  ELSE Limit(OrderByUpdatedAt(db, GroupByPath(JoinLinksWithPages(db, Trim(payload.path))),
                              tiebreak),
             MAX_BACKLINKS)

\* ------------------------------------------------------------------------
\* bulkSaveNotes
\* ------------------------------------------------------------------------
\* sanitizeNoteForImport: valid is FALSE where the code throws.
SanitizeNoteForImport(note, fallbackUpdatedAt) ==
  Only({[valid |-> path # NoValue /\ title # NoValue /\ body # NoValue,
         path |-> path, title |-> title, body |-> body,
         updatedAt |-> IF note.updatedAt # NoValue /\ Trim(note.updatedAt) # <<>>
                         THEN note.updatedAt
                         ELSE fallbackUpdatedAt] :
        path \in {ExtractAndValidateText(note.path, MaxPathLength, FALSE)},
        title \in {ExtractAndValidateText(note.title, MaxTitleLength, FALSE)},
        body \in {ExtractAndValidateText(note.body, MaxBodyLength, TRUE)}})

\* The loop over the records inside the transaction, from record index on.
\* The result is the store reached and the error raised ("" for none).
RECURSIVE ImportRecords(_, _, _, _)
ImportRecords(db, notes, index, now) ==
  IF index > Len(notes) THEN [db |-> db, error |-> ""]
  ELSE Only({
    IF ~sanitized.valid THEN [db |-> db, error |-> "Invalid note payload during import"]
    ELSE IF TriggerFails(db) THEN [db |-> db, error |-> "SQLITE_CORRUPT_VTAB"]
    ELSE Only({ImportRecords(imported, notes, index + 1, now) :
               imported \in {InsertLinksForSource(
                               UpsertPage(db, sanitized.path,
                                          [title |-> sanitized.title, body |-> sanitized.body,
                                           updatedAt |-> sanitized.updatedAt]),
                               sanitized.path, sanitized.body)}}) :
    sanitized \in {SanitizeNoteForImport(notes[index], now)}})

BulkFaults == {"none", "commit"}

\* One pass of the try block: DELETE FROM pages, DELETE FROM links, the
\* records, COMMIT.  fault = "commit" makes COMMIT raise a storage error.
RunTransaction(db, notes, now, fault) ==
  IF db.pages # EmptyPages /\ TriggerFails(db)
    THEN [db |-> db, error |-> "SQLITE_CORRUPT_VTAB"]
    ELSE Only({IF imported.error = "" /\ fault = "commit"
                 THEN [db |-> imported.db, error |-> "storage failure"]
                 ELSE imported :
               imported \in {Only({ImportRecords(emptied, notes, 1, now) :
                                   emptied \in {[DeleteAllPages(db) EXCEPT !.links = {}]}})}})

\* A catch block that continues on any error of the first attempt.
RetryOnAnyError(error, attempt) == attempt = 0

\* A catch block that continues on the corruption signature at any attempt.
RetryOnEveryCorruption(error, attempt) == IsSqliteCorruptVtabError(error)

\* The condition of the catch block under which the loop continues.
ShouldRetry(error, attempt) == IsSqliteCorruptVtabError(error) /\ attempt = 0

BulkOutcome(db, ok, error, posts, trace, rebuilds) ==
  [db |-> db, ok |-> ok, error |-> error, posts |-> posts,
   trace |-> trace, rebuilds |-> rebuilds]

\* The for loop of handleBulkSaveNotes from the given attempt on.  faults[i]
\* and repaired are what the storage engine does in pass i and in the rebuild;
\* trace collects the error of every pass made.
RECURSIVE BulkLoop(_, _, _, _, _, _, _, _)
BulkLoop(db, notes, now, attempt, faults, repaired, trace, rebuilds) ==
  IF ~(attempt < MaxAttempts)
    THEN BulkOutcome(db, FALSE, "", FALSE, trace, rebuilds)
    ELSE Only({
      IF pass.error = ""
        THEN BulkOutcome(pass.db, TRUE, "", TRUE, Append(trace, ""), rebuilds)
      ELSE IF ShouldRetry(pass.error, attempt)
        THEN Only({BulkLoop(rebuilt, notes, now, attempt + 1, faults, repaired,
                            Append(trace, pass.error), rebuilds + 1) :
                   rebuilt \in {RebuildFtsStructures(Rollback(db, pass.db), repaired)}})
      ELSE BulkOutcome(Rollback(db, pass.db), FALSE, pass.error, TRUE,
                       Append(trace, pass.error), rebuilds) :
      pass \in {RunTransaction(db, notes, now, faults[attempt + 1])}})

BulkSaveNotes(db, payload, now, faults, repaired) ==
  BulkLoop(db, IF payload.isArray THEN payload.notes ELSE <<>>, now, 0,
           faults, repaired, <<>>, 0)

\* ------------------------------------------------------------------------
\* runQuery
\* ------------------------------------------------------------------------
\* toLowerCase on a token.
LowerCase(tok) ==
  CASE tok = "SELECT" -> "select"
    [] tok = "WITH" -> "with"
    [] OTHER -> tok

\* text.replace(/;+\s*$/, ""): the leftmost position from which the text is
\* a run of semicolons followed by whitespace only is where it is cut.
SemicolonTail(s, i) ==
  /\ s[i] = ";"
  /\ \E m \in i..Len(s) :
       /\ \A j \in i..m : s[j] = ";"
       /\ \A j \in (m + 1)..Len(s) : s[j] \in Whitespace

StripTrailingSemicolons(s) ==
  Only({IF cuts = {} THEN s
        ELSE SubSeq(s, 1, (CHOOSE i \in cuts : \A j \in cuts : i <= j) - 1) :
        cuts \in {{i \in 1..Len(s) : SemicolonTail(s, i)}}})

\* A check of the leading keyword that lets every text through.
AcceptsAnyQuery(s) == TRUE

\* isSelectQuery: the trimmed, lower-cased text starts with "select" or "with".
IsSelectQuery(s) ==
  \E normalized \in {Trim(s)} :
    /\ normalized # <<>>
    /\ LowerCase(Head(normalized)) \in {"select", "selectx", "with"}

\* The verb of a statement: the first word, or the word after a leading
\* common table expression.
Verb(s) ==
  Only({IF words = <<>> THEN ""
        ELSE IF LowerCase(words[1]) = "with" /\ Len(words) > 1
          THEN LowerCase(words[2])
          ELSE LowerCase(words[1]) :
        words \in {SelectSeq(s, LAMBDA c : c \notin Whitespace)}})

\* What the engine does with one statement: the store after it, the error it
\* raises ("" for none).  A common table expression may precede any statement,
\* a DELETE included; pages_ad fires for every deleted row.
ExecStatement(db, s) ==
  Only({CASE verb = "select" -> [db |-> db, error |-> ""]
          [] verb = "delete" ->
               IF db.pages # EmptyPages /\ TriggerFails(db)
                 THEN [db |-> db, error |-> "SQLITE_CORRUPT_VTAB"]
                 ELSE [db |-> DeleteAllPages(db), error |-> ""]
          [] verb = "selectx" -> [db |-> db, error |-> "no such table"]
          [] OTHER -> [db |-> db, error |-> "syntax error"] :
        verb \in {Verb(s)}})

\* A callback that keeps a row only while fewer than the cap are held.
KeepsRowBelowCap(held) == held < MAX_QUERY_ROWS

\* The condition under which the callback of handleRunQuery pushes a row.
KeepsRow(held) == held <= MAX_QUERY_ROWS

\* rows.length after the callback has been called once more.
RowCallback(held) == IF KeepsRow(held) THEN held + 1 ELSE held

\* The rows and the truncated flag of the result, from rows.length after the
\* last callback.
QueryResult(held) ==
  [rows |-> IF held > MAX_QUERY_ROWS THEN MAX_QUERY_ROWS ELSE held,
   truncated |-> held > MAX_QUERY_ROWS]

ReadFaults == {"none", "exec"}

\* A handleSearchNotes that does not trim the query.
SearchUntrimmed(payload) == IF AsText(payload.query) = <<>> THEN 0 ELSE 1

\* handleSearchNotes: the number of statements it executes, none for a query
\* that is not a string or is blank after trim.
SearchStatements(payload) == IF Trim(AsText(payload.query)) = <<>> THEN 0 ELSE 1

\* handleSearchNotes: what its ok response carries, the literal [] or the
\* rows collected by the callback of the SELECT.
SearchResult(payload) == IF SearchStatements(payload) = 0 THEN "[]" ELSE "rows"

RunQuery(db, payload, fault) ==
  Only({IF Trim(payload.query) = <<>> THEN Outcome(db, FALSE, "Query is empty")
        ELSE IF \E i \in 1..Len(sanitized) : sanitized[i] = ";"
          THEN Outcome(db, FALSE, "Only a single query is supported")
        ELSE IF ~IsSelectQuery(sanitized)
          THEN Outcome(db, FALSE, "Only SELECT queries are supported")
        ELSE IF fault = "exec" THEN Outcome(db, FALSE, "storage failure")
        ELSE Only({Outcome(run.db, run.error = "", run.error) :
                   run \in {ExecStatement(db, sanitized)}}) :
        sanitized \in {StripTrailingSemicolons(Trim(payload.query))}})

\* ------------------------------------------------------------------------
\* Inputs
\* ------------------------------------------------------------------------
PathA == PagesPrefix \o <<"A">>
PathB == PagesPrefix \o <<"B">>
TitleT == <<"T">>
BodyLinkB == <<"[", "[", "B", "]", "]">>
BodyLinkA == <<" ", "[", "[", "A", "]", "]", " ">>
Stamp0 == <<"t0">>

\* Times new Date().toISOString() may return.
Times == {<<"t1">>, <<"t2">>}

Note(p, t, b, u) == [path |-> p, title |-> t, body |-> b, updatedAt |-> u]

ValidNote == Note(PathA, TitleT, BodyLinkB, Stamp0)
BlankTitleNote == Note(PathA, <<" ">>, BodyLinkB, Stamp0)

PaddedTitleNote == Note(PathA, <<"X1024", " ">>, BodyLinkA, Stamp0)

\* Note payloads of the store workload: accepted ones (one with untrimmed
\* path, title and body, two without updatedAt, one whose title has 1024
\* characters and a blank after them) and rejected ones (a blank title, no
\* path, and a path, a title and a body one character over their bounds).
Notes ==
  {ValidNote,
   Note(PathA, TitleT, BodyLinkA, NoValue),
   Note(PathB, TitleT, BodyLinkA, Stamp0),
   Note(PathA, TitleT, <<>>, NoValue),
   Note(<<" ">> \o PathA \o <<" ">>, <<" ">> \o TitleT, BodyLinkA, Stamp0),
   PaddedTitleNote,
   BlankTitleNote,
   Note(NoValue, TitleT, BodyLinkB, Stamp0),
   Note(<<"X512", "x">>, TitleT, BodyLinkB, Stamp0),
   Note(PathA, <<"X1024", "x">>, BodyLinkB, Stamp0),
   Note(PathA, TitleT, <<"X50000", "x">>, Stamp0)}

\* Records of a bulk payload.
BulkNotes ==
  {ValidNote,
   Note(PathA, TitleT, BodyLinkA, NoValue),
   Note(<<" ">> \o PathB, TitleT \o <<" ">>, BodyLinkA, <<" ">>),
   Note(PathB, <<>>, <<>>, Stamp0)}

RECURSIVE SeqsUpTo(_, _)
SeqsUpTo(S, n) ==
  IF n = 0 THEN {<<>>}
  ELSE LET shorter == SeqsUpTo(S, n - 1) IN
         shorter \cup {Append(q, x) : q \in {r \in shorter : Len(r) = n - 1}, x \in S}

\* Ad-hoc query texts.  A token stands for an SQL fragment:
\*   "select"  = "select path from pages"      "SELECT" the same in capitals
\*   "selectx" = "select x from nowhere"        "delete" = "delete from pages"
\*   "with"    = "with t as (select 1) "        ";" and " " stand for themselves
Queries ==
  {<<>>, <<" ">>, <<"select">>, <<"SELECT", ";", " ">>, <<"select", ";", "select">>,
   <<"delete">>, <<"selectx">>, <<"with", "select">>, <<"WITH", "delete">>}

PathPayload(f, p) == [kind |-> "path", form |-> f, path |-> p]
SavePayload(n) == [kind |-> "note", note |-> n]
BulkPayload(q) == [kind |-> "notes", isArray |-> TRUE, notes |-> q]
QueryPayload(q) == [kind |-> "query", query |-> q]

\* The gateway workload: a request for every way a request can end.
GatewayKinds ==
  {<<"loadNotes", [kind |-> "none"]>>,
   <<"bogus", [kind |-> "none"]>>,
   <<"saveNote", SavePayload(ValidNote)>>,
   <<"saveNote", SavePayload(Note(PathA, TitleT, BodyLinkA, NoValue))>>,
   <<"saveNote", SavePayload(BlankTitleNote)>>,
   <<"deleteNote", PathPayload("object", PathA)>>,
   <<"bulkSaveNotes", BulkPayload(<<ValidNote>>)>>,
   <<"bulkSaveNotes", BulkPayload(<<BlankTitleNote>>)>>,
   <<"searchNotes", QueryPayload(<<"T">>)>>,
   <<"listBacklinks", PathPayload("object", PathB)>>,
   <<"runQuery", QueryPayload(<<"select">>)>>,
   <<"runQuery", QueryPayload(<<"delete">>)>>}

\* The liveness workload: a request for every outcome of a handler (success,
\* validation failure, storage exception, unknown type, retried bulk import).
LiveKinds ==
  {<<"bogus", [kind |-> "none"]>>,
   <<"saveNote", SavePayload(ValidNote)>>,
   <<"saveNote", SavePayload(BlankTitleNote)>>,
   <<"bulkSaveNotes", BulkPayload(<<ValidNote>>)>>}

\* The save workload: saveNote and deleteNote.
SaveKinds ==
  {<<"saveNote", SavePayload(n)>> : n \in Notes}
    \cup {<<"deleteNote", PathPayload("object", PathA)>>,
          <<"deleteNote", PathPayload("bare", PathB)>>,
          <<"deleteNote", PathPayload("object", <<>>)>>}

\* The bulk workload: bulkSaveNotes, and a write of each other kind.
BulkKinds ==
  {<<"bulkSaveNotes", BulkPayload(q)>> : q \in SeqsUpTo(BulkNotes, MaxBulk)}
    \cup {<<"bulkSaveNotes", [kind |-> "notes", isArray |-> FALSE, notes |-> <<>>]>>,
          <<"saveNote", SavePayload(Note(PathB, TitleT, BodyLinkA, Stamp0))>>,
          <<"deleteNote", PathPayload("object", PathA)>>}

\* The search workload: searchNotes with a query that is empty, whitespace,
\* not a string, or a word, and a write of each kind.
SearchKinds ==
  {<<"searchNotes", QueryPayload(q)>> :
     q \in {<<>>, <<" ">>, <<" ", " ">>, NoValue, <<"T">>, <<" ", "T", " ">>}}
    \cup {<<"saveNote", SavePayload(ValidNote)>>,
          <<"deleteNote", PathPayload("object", PathA)>>}

\* The query workload: the ad-hoc queries, and a save.
QueryKinds ==
  {<<"runQuery", QueryPayload(q)>> : q \in Queries}
    \cup {<<"saveNote", SavePayload(ValidNote)>>}

\* The schema workload: load, save and delete of documents, and an import.
SchemaKinds ==
  {<<"loadNotes", [kind |-> "none"]>>,
   <<"saveNote", SavePayload(ValidNote)>>,
   <<"saveNote", SavePayload(Note(PathA, TitleT, BodyLinkA, NoValue))>>,
   <<"deleteNote", PathPayload("object", PathA)>>,
   <<"bulkSaveNotes", BulkPayload(<<Note(PathB, TitleT, BodyLinkA, Stamp0)>>)>>}

\* The backlink workload: saves that give a document two link rows to one
\* target and a link to itself, a delete, and listBacklinks of a path, of a
\* path with blanks around it, and of a blank.
DoubleLinkA ==
  <<"[", "[", "A", "]", "]", "[", "[", "/", "p", "a", "g", "e", "s", "/", "A", "]", "]">>

LinkKinds ==
  {<<"saveNote", SavePayload(Note(PathB, TitleT, DoubleLinkA, NoValue))>>,
   <<"saveNote", SavePayload(Note(PathA, TitleT, BodyLinkA, NoValue))>>,
   <<"deleteNote", PathPayload("object", PathB)>>,
   <<"listBacklinks", PathPayload("object", PathA)>>,
   <<"listBacklinks", PathPayload("bare", <<" ">> \o PathA \o <<" ">>)>>,
   <<"listBacklinks", PathPayload("object", <<" ">>)>>}

\* What the database file may hold when the worker opens it: nothing, or the
\* corpus an earlier run left there (written through saveNote).
EmptyStore == [pages |-> EmptyPages, links |-> {}, fts |-> {}, ftsState |-> "ok"]

EarlierCorpus ==
  Only({SaveNote(first, Note(PathB, TitleT, BodyLinkA, Stamp0), <<"t1">>, "none").db :
        first \in {SaveNote(EmptyStore, ValidNote, <<"t1">>, "none").db}})

\* The corpus an earlier run left there through a bulk import that named
\* PathA twice.
ImportedCorpus ==
  BulkSaveNotes(EmptyStore, BulkPayload(<<ValidNote, Note(PathA, TitleT, BodyLinkA, NoValue)>>),
                <<"t1">>, <<"none", "none">>, FALSE).db

PersistedStores == {EmptyStore, EarlierCorpus}

\* A file that does not exist yet, and the corpus of an earlier run that had
\* no search index and no links table.
NewFile == [EmptyStore EXCEPT !.ftsState = "none"]

BareCorpus == [EarlierCorpus EXCEPT !.fts = {}, !.links = {}, !.ftsState = "none"]

SchemaStores == {NewFile, BareCorpus, EarlierCorpus}

\* The corpus of an earlier run in which PathA links to itself and PathB has
\* two links to PathA.
LinkedCorpus ==
  Only({SaveNote(first, Note(PathB, TitleT, DoubleLinkA, Stamp0), <<"t1">>, "none").db :
        first \in {SaveNote(EmptyStore, Note(PathA, TitleT, BodyLinkA, NoValue),
                            <<"t1">>, "none").db}})

\* n documents that link to PathB, every second one twice, with the three
\* updated_at texts in turn.
SourcePath(i) == PagesPrefix \o <<ToString(i)>>

ManySources(n) ==
  [pages |-> [q \in {SourcePath(i) : i \in 1..n} |->
                [title |-> TitleT, body |-> BodyLinkB,
                 updatedAt |-> <<"t" \o ToString((CHOOSE i \in 1..n : SourcePath(i) = q) % 3)>>]],
   links |-> {[source |-> SourcePath(i), target |-> PathB, display |-> <<"B">>] : i \in 1..n}
               \cup {[source |-> SourcePath(2 * i), target |-> PathB, display |-> PathB] :
                       i \in 1..(n \div 2)},
   fts |-> {}, ftsState |-> "ok"]

\* ------------------------------------------------------------------------
\* The worker
\* ------------------------------------------------------------------------
VARIABLES
  env,                  \* the workload of this run
  nextRequestId,        \* the id the client gives its next request
  cancelsSent,          \* cancel notices received so far
  dbPromise,            \* "null", "pending", "db" or "unavailable"
  awaiting,             \* requests suspended at await createOrGetDbPromise()
  cancelledRequestIds,  \* the Set of the worker
  posted,               \* response envelopes handed to self.postMessage
  pages, links, fts, ftsState,
  corruptions,          \* corruptions of pages_fts so far
  lastOp,               \* the request whose handler ran last, and its outcome
  cancelNamed,          \* ids named by a cancel notice so far
  cancelEarly,          \* ids named by a cancel notice before their response
  clean,                \* every handler so far ended ok and met no storage failure
  initStarts,           \* times the initialization of the database was started
  initFault,            \* the statement of the initialization that failed, or "none"
  client,               \* the state of callWorker's module on the main thread
  pure,                 \* the argument and the result of a function under test
  repository,           \* the in-memory NoteRepository behind a NoteService
  noteSearch            \* the state and refs of a component that uses useNoteSearch

\* ------------------------------------------------------------------------
\* createNoteService over the in-memory NoteRepository: notes is the array of
\* the repository, last and prev are the two latest calls of the service and
\* what their promises settled with.
\* ------------------------------------------------------------------------

MaxServiceCalls == 4

\* null as the value of a promise.
NullNote == [kind |-> "null"]

NoCall == [op |-> "none", path |-> <<>>, settled |-> "resolved", value |-> NullNote]

RepositoryOf(initialNotes) ==
  [notes |-> initialNotes, calls |-> 0, last |-> NoCall, prev |-> NoCall]

NoRepository == RepositoryOf(<<>>)

\* A loadByPath that rejects when no note has the path.
LoadByPathOrThrow(notes, path) ==
  IF \E i \in 1..Len(notes) : notes[i].path = path
    THEN [settled |-> "resolved",
          value |-> notes[CHOOSE i \in 1..Len(notes) :
                            /\ notes[i].path = path
                            /\ \A j \in 1..(i - 1) : notes[j].path # path]]
    ELSE [settled |-> "rejected", value |-> NullNote]

\* loadByPath: notes.find((note) => note.path === path) ?? null
LoadByPath(notes, path) ==
  IF \E i \in 1..Len(notes) : notes[i].path = path
    THEN [settled |-> "resolved",
          value |-> notes[CHOOSE i \in 1..Len(notes) :
                            /\ notes[i].path = path
                            /\ \A j \in 1..(i - 1) : notes[j].path # path]]
    ELSE [settled |-> "resolved", value |-> NullNote]

\* save: the note replaces the first entry with its path, or is appended.
SaveToRepository(notes, note) ==
  IF \E i \in 1..Len(notes) : notes[i].path = note.path
    THEN [notes EXCEPT ![CHOOSE i \in 1..Len(notes) :
                           /\ notes[i].path = note.path
                           /\ \A j \in 1..(i - 1) : notes[j].path # note.path] = note]
    ELSE Append(notes, note)

\* delete: notes.filter((note) => note.path !== path)
DeleteFromRepository(notes, path) == SelectSeq(notes, LAMBDA n : n.path # path)

\* What a call of the service leaves in the repository.
Called(r, op, path, notes, outcome) ==
  [notes |-> notes, calls |-> r.calls + 1, prev |-> r.last,
   last |-> [op |-> op, path |-> path, settled |-> outcome.settled, value |-> outcome.value]]

\* ------------------------------------------------------------------------
\* useNoteSearch: query and results are the state of the hook, debounce is
\* debounceRef.current (0 for null, else the requestId of the armed timer),
\* latest is latestRequestRef.current, issued holds the query of every
\* requestId, running the requestIds of the runScheduledSearch calls that
\* wait for tryRemoteSearch.  results records the value set last and the
\* requestId of the call that set it (0: the initial null); stale holds the
\* requestIds of the searches that returned without setting the results.
\* ------------------------------------------------------------------------

MaxSearches == 3

SearchQueries == {<<>>, <<" ">>, <<"T">>, <<"A">>}

IdleSearch ==
  [query |-> <<>>, results |-> [by |-> 0, value |-> "null"], debounce |-> 0, latest |-> 0,
   issued |-> <<>>, running |-> {}, stale |-> {}]

\* handleSearch: the armed timer is cleared and a new one armed for the next
\* requestId.
HandleSearch(s, nextQuery) ==
  [s EXCEPT !.query = nextQuery,
            !.latest = @ + 1,
            !.debounce = s.latest + 1,
            !.issued = Append(@, nextQuery)]

\* The callback of the timer, and runScheduledSearch up to its await: a blank
\* query sets the results to null when the request is the latest one.
StartScheduledSearch(s) ==
  Only({IF Trim(s.issued[requestId]) = <<>>
          THEN [s EXCEPT !.debounce = 0,
                         !.results = IF requestId = s.latest
                                       THEN [by |-> requestId, value |-> "null"] ELSE @]
          ELSE [s EXCEPT !.debounce = 0, !.running = @ \cup {requestId}] :
        requestId \in {s.debounce}})

\* A runScheduledSearch that sets the results of every search that completes.
FinishAnySearch(s, requestId, outcome) ==
  [s EXCEPT !.running = @ \ {requestId},
            !.results = [by |-> requestId,
                         value |-> IF outcome = "rows" THEN "remote" ELSE "filtered"]]

\* runScheduledSearch after its await: the rows of storageSearch, or the
\* notes filtered on the client when it gave none, failed or is missing; a
\* request that is not the latest one sets nothing.
FinishScheduledSearch(s, requestId, outcome) ==
  IF requestId # s.latest
    THEN [s EXCEPT !.running = @ \ {requestId}, !.stale = @ \cup {requestId}]
    ELSE [s EXCEPT !.running = @ \ {requestId},
                   !.results = [by |-> requestId,
                                value |-> IF outcome = "rows" THEN "remote" ELSE "filtered"]]

vars == <<env, nextRequestId, cancelsSent, dbPromise, awaiting, cancelledRequestIds,
          posted, pages, links, fts, ftsState, corruptions, lastOp,
          cancelNamed, cancelEarly, clean, initStarts, initFault, client, pure, repository, noteSearch>>

storeVars == <<pages, links, fts, ftsState>>

Db == [pages |-> pages, links |-> links, fts |-> fts, ftsState |-> ftsState]

\* What the storage engine and the clock do while a handler runs.
NoChoice == [fault |-> "none", fault2 |-> "none", repaired |-> FALSE, now |-> NoValue]

NoOp ==
  [id |-> 0, type |-> "none", payload |-> [kind |-> "none"], ok |-> FALSE,
   error |-> "", posts |-> FALSE, answered |-> FALSE, now |-> NoValue,
   faulted |-> FALSE, again |-> FALSE,
   trace |-> <<>>, rebuilds |-> 0]

\* The state after the worker script has run; the database file is not open.
InitWorker ==
  /\ nextRequestId = 1
  /\ cancelsSent = 0
  /\ dbPromise = "null"
  /\ awaiting = <<>>
  /\ cancelledRequestIds = {}
  /\ posted = <<>>
  /\ pages = EmptyPages
  /\ links = {}
  /\ fts = {}
  /\ ftsState = "ok"
  /\ corruptions = 0
  /\ lastOp = NoOp
  /\ cancelNamed = {}
  /\ cancelEarly = {}
  /\ clean = TRUE
  /\ initStarts = 0
  /\ initFault = "none"

\* The main thread before its first callWorker, and no function under test.
IdleClient ==
  [nextRequestId |-> 1, pendingRequests |-> {}, timers |-> {}, promises |-> <<>>,
   sent |-> <<>>, held |-> {}, errors |-> 0, last |-> [event |-> "none", id |-> 0]]

NoPure ==
  [input |-> 0, seen |-> 0, held |-> 0, output |-> [rows |-> 0, truncated |-> FALSE],
   applied |-> FALSE]

InitIdle == client = IdleClient /\ pure = NoPure /\ repository = NoRepository /\ noteSearch = IdleSearch

Init == env = "gateway" /\ InitWorker /\ InitIdle
SaveInit == env = "save" /\ InitWorker /\ InitIdle
BulkInit == env = "bulk" /\ InitWorker /\ InitIdle
QueryInit == env = "query" /\ InitWorker /\ InitIdle
LiveInit == env = "live" /\ InitWorker /\ InitIdle
SchemaInit == env = "schema" /\ InitWorker /\ InitIdle
SearchInit == env = "search" /\ InitWorker /\ InitIdle

\* listBacklinks through the worker on small stores, or its query alone on a
\* store of up to MaxSources documents that link to one target.
LinksInit ==
  /\ InitWorker
  /\ client = IdleClient
  /\ repository = NoRepository /\ noteSearch = IdleSearch
  /\ \/ env = "links" /\ pure = NoPure
     \/ env = "sources" /\ pure \in {[NoPure EXCEPT !.input = n] : n \in 0..MaxSources}

\* The requests the client may send, their number, the number of cancel
\* notices and the files the worker may find, by workload.
EnvKinds ==
  CASE env = "gateway" -> GatewayKinds
    [] env = "save" -> SaveKinds
    [] env = "bulk" -> BulkKinds
    [] env = "query" -> QueryKinds
    [] env = "live" -> LiveKinds
    [] env = "schema" -> SchemaKinds
    [] env = "links" -> LinkKinds
    [] env = "search" -> SearchKinds
    [] OTHER -> {}

EnvRequests == IF env \in {"gateway", "live"} THEN MaxRequests ELSE MaxStoreRequests

EnvCancels == IF env \in {"gateway", "live"} THEN MaxCancels ELSE 0

EnvStores ==
  CASE env \in {"gateway", "live"} -> {EmptyStore}
    [] env = "save" -> PersistedStores \cup {ImportedCorpus}
    [] env = "schema" -> SchemaStores
    [] env = "links" -> {EarlierCorpus, LinkedCorpus}
    [] OTHER -> PersistedStores

\* The statements of the initialization that may raise: loading the engine
\* ("module"), CREATE TABLE pages, the five statements of
\* initializeFtsStructures, an index of the links table, and the statements
\* of rebuildAllLinks outside its try.
FtsFaults == {"ftsTable", "triggerAi", "triggerAd", "triggerAu", "ftsBackfill"}

InitFaults == {"none", "module", "pagesTable", "linkIndex", "linkBackfill"} \cup FtsFaults

\* The statements that may raise during the initialization, by workload.
EnvInitFaults == IF env = "schema" THEN InitFaults ELSE {"none", "module"}

Responses(id) == {i \in 1..Len(posted) : posted[i].id = id}

\* The number that stands for NaN among the targetIds: typeof NaN is
\* "number", and every comparison with NaN is false.
NotANumber == -1

\* targetId <= 0 as the engine evaluates it.
NotPositive(targetId) == targetId # NotANumber /\ targetId <= 0

\* A markRequestCancelled without its guard.
MarkEveryTarget(cancelled, targetId) == cancelled \cup {targetId}

\* markRequestCancelled; targetId 0 also stands for a targetId that is not a
\* number.
MarkRequestCancelled(cancelled, targetId) ==
  IF NotPositive(targetId) THEN cancelled ELSE cancelled \cup {targetId}

\* A dispatch that takes no request for cancelled.
NeverCancelled(cancelled, id) == FALSE

\* isRequestCancelled
IsRequestCancelled(cancelled, id) == id \in cancelled

\* A postIfNotCancelled that withholds the envelope when any id is cancelled.
PostUnlessAnyCancelled(cancelled, out, id, message) ==
  IF cancelled # {}
    THEN [cancelled |-> cancelled \ {id}, posted |-> out]
    ELSE [cancelled |-> cancelled, posted |-> Append(out, message)]

\* A postIfNotCancelled that hands every envelope to self.postMessage.
PostAlways(cancelled, out, id, message) ==
  [cancelled |-> cancelled, posted |-> Append(out, message)]

\* postIfNotCancelled, with consumeCancelledRequest: the cancelled set and the
\* posted envelopes after the call.
PostIfNotCancelled(cancelled, out, id, message) ==
  IF id \in cancelled
    THEN [cancelled |-> cancelled \ {id}, posted |-> out]
    ELSE [cancelled |-> cancelled, posted |-> Append(out, message)]

\* A createOrGetDbPromise that starts an initialization at every call.
RestartInitialization(promise) == [promise |-> "pending", started |-> TRUE]

\* A createOrGetDbPromise that starts over when the initialization has failed.
RetryFailedInitialization(promise) ==
  [promise |-> IF promise \in {"null", "unavailable"} THEN "pending" ELSE promise,
   started |-> promise \in {"null", "unavailable"}]

\* createOrGetDbPromise: the promise after the call, and whether the call
\* started the initialization.
CreateOrGetDbPromise(promise) ==
  [promise |-> IF promise = "null" THEN "pending" ELSE promise,
   started |-> promise = "null"]

\* The messages that can arrive now: the next request of the client, or a
\* cancel notice (targetId 0 stands for a notice without a usable targetId).
Messages ==
  (IF nextRequestId > EnvRequests THEN {}
   ELSE {[id |-> nextRequestId, type |-> k[1], payload |-> k[2]] : k \in EnvKinds})
  \cup
  (IF cancelsSent >= EnvCancels THEN {}
   ELSE {[id |-> t, type |-> "cancelRequest", payload |-> [kind |-> "cancel", targetId |-> t]] :
           t \in (0..EnvRequests) \cup (IF env = "gateway" THEN {NotANumber} ELSE {})})

\* self.onmessage up to its await.  A message event is dispatched only when
\* no continuation of an earlier one is still to run.
OnMessage ==
  /\ dbPromise \in {"null", "pending"} \/ awaiting = <<>>
  /\ \E msg \in Messages :
       IF msg.type = "cancelRequest"
         THEN LET targetId == msg.payload.targetId IN
           /\ cancelledRequestIds' = MarkRequestCancelled(cancelledRequestIds, targetId)
           /\ cancelNamed' = IF targetId > 0 THEN cancelNamed \cup {targetId} ELSE cancelNamed
           /\ cancelEarly' = IF targetId > 0 /\ Responses(targetId) = {}
                               THEN cancelEarly \cup {targetId}
                               ELSE cancelEarly
           /\ cancelsSent' = cancelsSent + 1
           /\ UNCHANGED <<nextRequestId, dbPromise, awaiting, initStarts>>
       ELSE IF IsRequestCancelled(cancelledRequestIds, msg.id)
         THEN /\ cancelledRequestIds' = cancelledRequestIds \ {msg.id}
              /\ nextRequestId' = nextRequestId + 1
              /\ UNCHANGED <<cancelsSent, dbPromise, awaiting, cancelNamed, cancelEarly,
                             initStarts>>
         ELSE /\ Len(awaiting) < MaxEarly
              /\ awaiting' = Append(awaiting, msg)
              /\ dbPromise' = CreateOrGetDbPromise(dbPromise).promise
              /\ initStarts' = initStarts
                                + (IF CreateOrGetDbPromise(dbPromise).started THEN 1 ELSE 0)
              /\ nextRequestId' = nextRequestId + 1
              /\ UNCHANGED <<cancelsSent, cancelledRequestIds, cancelNamed, cancelEarly>>
  /\ UNCHANGED <<env, posted, storeVars, corruptions, lastOp, clean, initFault, client, pure, repository, noteSearch>>

\* How far the triggers of a file go, and how far initializeFtsStructures
\* gets before the statement that raises.
TriggerRank(state) ==
  CASE state = "none" -> 0
    [] state = "ai" -> 1
    [] state = "ai-ad" -> 2
    [] OTHER -> 3

ReachedBefore(fault) ==
  CASE fault \in {"ftsTable", "triggerAi"} -> "none"
    [] fault = "triggerAd" -> "ai"
    [] fault = "triggerAu" -> "ai-ad"
    [] OTHER -> "ok"

\* initializeFtsStructures: CREATE ... IF NOT EXISTS of pages_fts and of the
\* three triggers, then an entry for every page that has none.  The statement
\* that raises ends it; the catch logs the error.
InitializeFtsStructures(db, fault) ==
  IF fault \in FtsFaults
    THEN [db EXCEPT !.ftsState = IF TriggerRank(@) < TriggerRank(ReachedBefore(fault))
                                   THEN ReachedBefore(fault) ELSE @]
    ELSE [db EXCEPT !.ftsState = IF TriggerRank(@) < 3 THEN "ok" ELSE @,
                    !.fts = @ \cup {FtsEntry(p, db.pages[p]) :
                                     p \in {q \in DOMAIN db.pages :
                                              \A e \in db.fts : e.path # q}}]

\* rebuildAllLinks
RebuildAllLinks(db) ==
  [db EXCEPT !.links = UNION {LinkRows(p, db.pages[p].body) : p \in DOMAIN db.pages}]

\* initializeLinkStructures: the links are rebuilt from the bodies when the
\* links table is empty and pages is not; a failure to create an index is
\* logged and ends the function before that.
InitializeLinkStructures(db, fault) ==
  IF fault = "linkIndex" THEN db
  ELSE IF db.links = {} /\ db.pages # EmptyPages THEN RebuildAllLinks(db)
  ELSE db

\* An initialization that gives up at every statement that raises.
InitializeStrictly(file, fault) ==
  IF fault # "none"
    THEN [handle |-> "unavailable", db |-> file]
    ELSE [handle |-> "db",
          db |-> InitializeLinkStructures(InitializeFtsStructures(file, fault), fault)]

\* The async function of createOrGetDbPromise on the file it opens: the
\* handle it resolves to, "unavailable" for null, and the store behind it.
InitializeDb(file, fault) ==
  IF \/ fault \in {"module", "pagesTable"}
     \/ fault = "linkBackfill" /\ file.links = {} /\ file.pages # EmptyPages
    THEN [handle |-> "unavailable", db |-> file]
    ELSE [handle |-> "db",
          db |-> InitializeLinkStructures(InitializeFtsStructures(file, fault), fault)]

\* The rest of createOrGetDbPromise on the file it opened, when no statement
\* raises: pages_fts gets an entry for every page that has none, and the
\* links are rebuilt from the bodies when the links table is empty and pages
\* is not.
OpenStore(file) == InitializeDb(file, "none").db

\* The initialization settles: with the handle, or with null.
InitFinish ==
  /\ dbPromise = "pending"
  /\ \E file \in EnvStores, fault \in EnvInitFaults :
       \E opened \in {InitializeDb(file, fault)} :
         /\ dbPromise' = opened.handle
         /\ initFault' = fault
         /\ IF opened.handle = "db"
              THEN /\ pages' = opened.db.pages
                   /\ links' = opened.db.links
                   /\ fts' = opened.db.fts
                   /\ ftsState' = opened.db.ftsState
              ELSE UNCHANGED storeVars
  /\ UNCHANGED <<env, nextRequestId, cancelsSent, awaiting, cancelledRequestIds, posted,
                 corruptions, lastOp, cancelNamed, cancelEarly, clean, initStarts,
                 client, pure, repository, noteSearch>>

\* The storage engine finds pages_fts corrupt from now on.
CorruptFts ==
  /\ awaiting = <<>>
  /\ dbPromise = "db"
  /\ ftsState = "ok"
  /\ corruptions < MaxCorruptions
  /\ ftsState' = "corrupt"
  /\ corruptions' = corruptions + 1
  /\ UNCHANGED <<env, nextRequestId, cancelsSent, dbPromise, awaiting,
                 cancelledRequestIds, posted, pages, links, fts, lastOp,
                 cancelNamed, cancelEarly, clean, initStarts, initFault, client, pure, repository, noteSearch>>

\* An onmessage without its catch: a handler that failed builds no response.
PostingWithoutCatch(out) ==
  [db |-> out.db, ok |-> out.ok, error |-> out.error, posts |-> out.ok,
   trace |-> <<>>, rebuilds |-> 0]

\* The response of a handler, built by the handler or by the catch of
\* onmessage from the exception that left it.
Posting(out) ==
  [db |-> out.db, ok |-> out.ok, error |-> out.error, posts |-> TRUE,
   trace |-> <<>>, rebuilds |-> 0]

Failing(failed) == IF failed THEN "storage failure" ELSE ""

\* What the engine and the clock can do during the handler of a request type.
FaultsOf(type) ==
  CASE type = "saveNote" -> SaveFaults
    [] type = "deleteNote" -> DeleteFaults
    [] type = "bulkSaveNotes" -> BulkFaults
    [] type \in {"loadNotes", "searchNotes", "listBacklinks", "runQuery"} -> ReadFaults
    [] OTHER -> {"none"}

Choices(type) ==
  {[fault |-> f, fault2 |-> g, repaired |-> r, now |-> n] :
     f \in FaultsOf(type),
     g \in (IF type = "bulkSaveNotes" THEN BulkFaults ELSE {"none"}),
     r \in (IF type = "bulkSaveNotes" THEN BOOLEAN ELSE {FALSE}),
     n \in (IF type \in {"saveNote", "bulkSaveNotes"} THEN Times ELSE {NoValue})}

\* The same run of a handler on an engine that raises no storage error.
Unfailing(ch) == [ch EXCEPT !.fault = "none", !.fault2 = "none"]

\* The part of self.onmessage after the await (lines 27-74): the handler of
\* the request type on the store db, or the answer of a missing handle.
RunHandler(handle, db, req, ch) ==
  IF handle # "db"
    THEN Posting(Outcome(db, FALSE, "SQLite database is not available"))
  ELSE CASE req.type = "loadNotes" ->
              Posting(Outcome(db, ch.fault = "none", Failing(ch.fault # "none")))
         [] req.type = "saveNote" ->
              Posting(SaveNote(db, req.payload.note, ch.now, ch.fault))
         [] req.type = "deleteNote" ->
              Posting(DeleteNote(db, req.payload, ch.fault))
         [] req.type = "bulkSaveNotes" ->
              BulkSaveNotes(db, req.payload, ch.now, <<ch.fault, ch.fault2>>, ch.repaired)
         [] req.type = "searchNotes" ->
              LET failed == SearchStatements(req.payload) > 0 /\ ch.fault = "exec" IN
                Posting(Outcome(db, ~failed, Failing(failed)))
         [] req.type = "listBacklinks" ->
              LET failed == Trim(req.payload.path) # <<>> /\ ch.fault = "exec" IN
                Posting(Outcome(db, ~failed, Failing(failed)))
         [] req.type = "runQuery" ->
              Posting(RunQuery(db, req.payload, ch.fault))
         [] OTHER ->
              Posting(Outcome(db, FALSE, "Unknown message type"))

\* A scheduler that runs the continuation suspended last.
LastContinuation(q) == Len(q)

\* The suspended continuation that runs next: the microtasks of a settled
\* promise run in the order in which they were registered.
NextContinuation(q) == 1

\* A worker that skips the writes of a request whose id is cancelled.
StoreUnlessCancelled(cancelled, id, before, out) ==
  IF id \in cancelled THEN before ELSE out.db

\* The store a handler leaves: no handler reads cancelledRequestIds before
\* its writes.
StoreAfter(cancelled, id, before, out) == out.db

\* The continuation of the first suspended request runs, once the
\* initialization has settled.
Resume ==
  /\ dbPromise \in {"db", "unavailable"}
  /\ awaiting # <<>>
  /\ LET req == awaiting[NextContinuation(awaiting)] IN
       \E ch \in (IF dbPromise = "db" THEN Choices(req.type) ELSE {NoChoice}),
          db \in {Db} :
         \E out \in {RunHandler(dbPromise, db, req, ch)} :
         \E faulted \in {out # RunHandler(dbPromise, db, req, Unfailing(ch))} :
         \E sent \in {IF out.posts
                        THEN PostIfNotCancelled(cancelledRequestIds, posted, req.id,
                                                [id |-> req.id, ok |-> out.ok])
                        ELSE [cancelled |-> cancelledRequestIds, posted |-> posted]} :
         \E after \in {StoreAfter(cancelledRequestIds, req.id, db, out)} :
            /\ awaiting' = [i \in 1..(Len(awaiting) - 1) |->
                              IF i < NextContinuation(awaiting)
                                THEN awaiting[i] ELSE awaiting[i + 1]]
            /\ pages' = after.pages
            /\ links' = after.links
            /\ fts' = after.fts
            /\ ftsState' = after.ftsState
            /\ cancelledRequestIds' = sent.cancelled
            /\ posted' = sent.posted
            /\ lastOp' = [id |-> req.id, type |-> req.type, payload |-> req.payload,
                          ok |-> out.ok, error |-> out.error, posts |-> out.posts,
                          answered |-> sent.posted # posted, now |-> ch.now,
                          faulted |-> faulted,
                          again |-> /\ lastOp.type = req.type
                                    /\ lastOp.payload = req.payload
                                    /\ lastOp.ok
                                    /\ ~lastOp.faulted,
                          trace |-> out.trace, rebuilds |-> out.rebuilds]
            /\ clean' = (clean /\ out.ok /\ ~faulted)
  /\ UNCHANGED <<env, nextRequestId, cancelsSent, dbPromise, corruptions,
                 cancelNamed, cancelEarly, initStarts, initFault, client, pure, repository, noteSearch>>

Next ==
  \/ OnMessage
  \/ InitFinish
  \/ Resume
  \/ CorruptFts

\* The gateway, save, bulk and query workloads.
Spec == Init /\ [][Next]_vars
SaveSpec == SaveInit /\ [][Next]_vars
BulkSpec == BulkInit /\ [][Next]_vars
QuerySpec == QueryInit /\ [][Next]_vars
SchemaSpec == SchemaInit /\ [][Next]_vars
SearchSpec == SearchInit /\ [][Next]_vars

\* The row cap of handleRunQuery on a query of any number of rows up to
\* MaxRows.
RowsInit ==
  /\ env = "rows"
  /\ InitWorker
  /\ client = IdleClient
  /\ repository = NoRepository /\ noteSearch = IdleSearch
  /\ pure \in {[NoPure EXCEPT !.input = n] : n \in 0..MaxRows}

\* db.exec calls the callback for the next row of the result.
NextRow ==
  /\ env = "rows"
  /\ pure.seen < pure.input
  /\ pure' = [pure EXCEPT !.seen = pure.seen + 1, !.held = RowCallback(pure.held)]
  /\ UNCHANGED <<env, nextRequestId, cancelsSent, dbPromise, awaiting, cancelledRequestIds,
                 posted, storeVars, corruptions, lastOp, cancelNamed, cancelEarly, clean,
                 initStarts, initFault, client, repository, noteSearch>>

\* db.exec returns after the last row and the result is built.
CollectRows ==
  /\ env = "rows"
  /\ pure.seen = pure.input
  /\ ~pure.applied
  /\ pure' = [pure EXCEPT !.output = QueryResult(pure.held), !.applied = TRUE]
  /\ UNCHANGED <<env, nextRequestId, cancelsSent, dbPromise, awaiting, cancelledRequestIds,
                 posted, storeVars, corruptions, lastOp, cancelNamed, cancelEarly, clean,
                 initStarts, initFault, client, repository, noteSearch>>

RowsNext == NextRow \/ CollectRows

\* The query of handleListBacklinks on ManySources(n): the number of rows it
\* returns and whether any source is left out.
ListManyBacklinks ==
  /\ env = "sources"
  /\ ~pure.applied
  /\ \E rows \in {ListBacklinkRows(ManySources(pure.input), [path |-> PathB],
                                   [q \in {SourcePath(i) : i \in 1..pure.input} |->
                                      CHOOSE i \in 1..pure.input : SourcePath(i) = q])} :
       pure' = [pure EXCEPT !.output = [rows |-> Len(rows),
                                        truncated |-> Len(rows) < pure.input],
                            !.applied = TRUE]
  /\ UNCHANGED <<env, nextRequestId, cancelsSent, dbPromise, awaiting, cancelledRequestIds,
                 posted, storeVars, corruptions, lastOp, cancelNamed, cancelEarly, clean,
                 initStarts, initFault, client, repository, noteSearch>>

RowsSpec == RowsInit /\ [][RowsNext]_vars

\* ------------------------------------------------------------------------
\* The client of the worker: callWorker, its timeout, and the handlers of the
\* worker's message and error events.  A promise is "pending" or carries what
\* settled it; timers holds the ids whose timeout is armed and may fire at
\* any time; sent holds the messages posted to the worker; held holds the ids
\* of the requests that the running worker has received and not answered.
\* ------------------------------------------------------------------------

\* resolve and reject of a promise: the first call settles it, later calls
\* do nothing.
Settle(promise, outcome) == IF promise = "pending" THEN outcome ELSE promise

SettleAt(promises, id, outcome) == [promises EXCEPT ![id] = Settle(@, outcome)]

\* A timeout callback that notifies nobody.
OnTimeoutWithoutCancel(c, id) ==
  [c EXCEPT !.timers = @ \ {id},
            !.pendingRequests = @ \ {id},
            !.promises = SettleAt(@, id, "SQLite worker timed out"),
            !.last = [event |-> "timeout", id |-> id]]

\* The callback of window.setTimeout in callWorker.  The cancel notice holds
\* two numbers and a string, so posting it does not throw.
OnTimeout(c, id) ==
  [c EXCEPT !.timers = @ \ {id},
            !.pendingRequests = @ \ {id},
            !.sent = Append(@, [id |-> id, type |-> "cancelRequest", targetId |-> id]),
            !.promises = SettleAt(@, id, "SQLite worker timed out"),
            !.last = [event |-> "timeout", id |-> id]]

\* A callWorker that arms no timer.
CallWorkerWithoutTimer(c, posts) ==
  Only({[c EXCEPT !.nextRequestId = id + 1,
                  !.pendingRequests = IF posts THEN @ \cup {id} ELSE @,
                  !.sent = IF posts THEN Append(@, [id |-> id, type |-> "request", targetId |-> 0])
                           ELSE @,
                  !.held = IF posts THEN @ \cup {id} ELSE @,
                  !.promises = Append(@, IF posts THEN "pending" ELSE "post failed"),
                  !.last = [event |-> "call", id |-> id]] : id \in {c.nextRequestId}})

\* callWorker: the timer is armed and the entry registered, then the request
\* is posted; when posting throws (a payload that cannot be cloned) the entry
\* is deleted and the promise rejected, and the timer stays armed.
CallWorkerResult(c, posts) ==
  Only({[c EXCEPT !.nextRequestId = id + 1,
                  !.timers = @ \cup {id},
                  !.pendingRequests = IF posts THEN @ \cup {id} ELSE @,
                  !.sent = IF posts THEN Append(@, [id |-> id, type |-> "request", targetId |-> 0])
                           ELSE @,
                  !.held = IF posts THEN @ \cup {id} ELSE @,
                  !.promises = Append(@, IF posts THEN "pending" ELSE "post failed"),
                  !.last = [event |-> "call", id |-> id]] : id \in {c.nextRequestId}})

\* An onmessage of the client that settles the promise and keeps the entry.
OnWorkerMessageKeepingEntry(c, id, ok) ==
  IF id \notin c.pendingRequests
    THEN [c EXCEPT !.held = @ \ {id}, !.last = [event |-> "response", id |-> id]]
    ELSE [c EXCEPT !.held = @ \ {id},
                   !.timers = @ \ {id},
                   !.promises = SettleAt(@, id, IF ok THEN "resolved" ELSE "rejected"),
                   !.last = [event |-> "response", id |-> id]]

\* sqliteWorker.onmessage for a response with this id and ok; id 0 stands for
\* a message without a numeric id.  The resolve and reject of an entry clear
\* its timer.
OnWorkerMessage(c, id, ok) ==
  IF id \notin c.pendingRequests
    THEN [c EXCEPT !.held = @ \ {id}, !.last = [event |-> "response", id |-> id]]
    ELSE [c EXCEPT !.held = @ \ {id},
                   !.pendingRequests = @ \ {id},
                   !.timers = @ \ {id},
                   !.promises = SettleAt(@, id, IF ok THEN "resolved" ELSE "rejected"),
                   !.last = [event |-> "response", id |-> id]]

\* An onerror after which the ids start again at 1.
OnWorkerErrorResettingIds(c) ==
  [c EXCEPT !.promises = [i \in DOMAIN @ |->
                            IF i \in c.pendingRequests THEN Settle(@[i], "worker error")
                            ELSE @[i]],
            !.timers = @ \ c.pendingRequests,
            !.pendingRequests = {},
            !.held = {},
            !.errors = @ + 1,
            !.nextRequestId = 1,
            !.last = [event |-> "error", id |-> 0]]

\* sqliteWorker.onerror: every entry is rejected, the map cleared and the
\* worker terminated, so that it answers nothing any more.
OnWorkerError(c) ==
  [c EXCEPT !.promises = [i \in DOMAIN @ |->
                            IF i \in c.pendingRequests THEN Settle(@[i], "worker error")
                            ELSE @[i]],
            !.timers = @ \ c.pendingRequests,
            !.pendingRequests = {},
            !.held = {},
            !.errors = @ + 1,
            !.last = [event |-> "error", id |-> 0]]

ClientInit == env = "client" /\ InitWorker /\ InitIdle

WorkerUnchanged ==
  UNCHANGED <<env, nextRequestId, cancelsSent, dbPromise, awaiting, cancelledRequestIds,
              posted, storeVars, corruptions, lastOp, cancelNamed, cancelEarly, clean,
              initStarts, initFault, pure, repository, noteSearch>>

CallWorker ==
  /\ env = "client"
  /\ client.nextRequestId <= MaxCalls
  /\ \E posts \in BOOLEAN : client' = CallWorkerResult(client, posts)
  /\ WorkerUnchanged

TimeoutFires ==
  /\ env = "client"
  /\ \E id \in client.timers : client' = OnTimeout(client, id)
  /\ WorkerUnchanged

WorkerAnswers ==
  /\ env = "client"
  /\ \E id \in client.held \cup {0}, ok \in BOOLEAN : client' = OnWorkerMessage(client, id, ok)
  /\ WorkerUnchanged

WorkerFails ==
  /\ env = "client"
  /\ client.errors < MaxWorkerErrors
  /\ client.sent # <<>>
  /\ client' = OnWorkerError(client)
  /\ WorkerUnchanged

ClientNext == CallWorker \/ TimeoutFires \/ WorkerAnswers \/ WorkerFails

ClientSpec == ClientInit /\ [][ClientNext]_vars

\* The client with its timers: the callback of a window.setTimeout that was
\* not cleared runs.
ClientLiveSpec == ClientInit /\ [][ClientNext]_vars /\ WF_vars(TimeoutFires)

LinksNext == Next \/ ListManyBacklinks

LinksSpec == LinksInit /\ [][LinksNext]_vars

\* ------------------------------------------------------------------------
\* extractWikiLinksFromBody and normalizeWikiLabelToPath as functions of
\* their argument.  A body is written as a sequence of pieces separated by a
\* space: a label in double brackets, plain text, or brackets that do not
\* close a label.
\* ------------------------------------------------------------------------

MaxPieces == 3

MaxSlashes == 3

BodyLabels ==
  {<<"A">>, <<"B">>, <<" ", "A">>, <<"A", " ">>, <<" ">>, <<"A", " ", "B">>,
   PagesPrefix \o <<"B">>, <<"/">> \o PagesPrefix \o <<"B">>, <<"/", "B">>}

Pieces ==
  {[kind |-> "label", text |-> l] : l \in BodyLabels}
    \cup {[kind |-> k, text |-> <<"A">>] : k \in {"text", "open", "single", "nested"}}
    \cup {[kind |-> "label", text |-> <<>>]}

\* The characters of a piece.
Render(piece) ==
  CASE piece.kind = "label" -> <<"[", "[">> \o piece.text \o <<"]", "]">>
    [] piece.kind = "open" -> <<"[", "[">> \o piece.text \o <<"]">>
    [] piece.kind = "single" -> <<"[">> \o piece.text \o <<"]">>
    [] piece.kind = "nested" -> <<"[", "[", "[">> \o piece.text \o <<"]", "]", "]">>
    [] OTHER -> piece.text

RECURSIVE RenderBody(_)
RenderBody(parts) ==
  IF parts = <<>> THEN <<>>
  ELSE IF Len(parts) = 1 THEN Render(parts[1])
  ELSE Render(parts[1]) \o <<" ">> \o RenderBody(Tail(parts))

\* The bodies: a missing one (null or undefined), or one of up to MaxPieces
\* pieces.
Bodies ==
  {[missing |-> TRUE, parts |-> <<>>]}
    \cup {[missing |-> FALSE, parts |-> parts] :
            parts \in UNION {[1..n -> Pieces] : n \in 0..MaxPieces}}

\* The labels given to normalizeWikiLabelToPath: up to MaxSlashes slashes
\* before a name, with and without whitespace around.
RECURSIVE Slashes(_)
Slashes(n) == IF n = 0 THEN <<>> ELSE <<"/">> \o Slashes(n - 1)

LabelCores ==
  {<<>>, <<"X">>, <<"p", "a", "g", "e", "s">>, <<"p", "a", "g", "e", "s", "/">>,
   <<"p", "a", "g", "e", "s", "/", "X">>, <<"p", "a", "g", "e", "s", "X">>,
   <<"X", "/", "Y">>}

Labels ==
  {NoValue} \cup
  {before \o Slashes(n) \o core \o after :
     before \in {<<>>, <<" ">>}, n \in 0..MaxSlashes, core \in LabelCores,
     after \in {<<>>, <<" ">>}}

ExtractInit ==
  /\ InitWorker
  /\ client = IdleClient
  /\ repository = NoRepository /\ noteSearch = IdleSearch
  /\ \/ env = "bodies" /\ pure \in {[NoPure EXCEPT !.input = b] : b \in Bodies}
     \/ env = "labels" /\ pure \in {[NoPure EXCEPT !.input = l] : l \in Labels}

\* extractWikiLinksFromBody is called on the body.
ExtractLinks ==
  /\ env = "bodies"
  /\ ~pure.applied
  /\ \E body \in {IF pure.input.missing THEN NoValue ELSE RenderBody(pure.input.parts)} :
       pure' = [pure EXCEPT !.held = body,
                            !.output = ExtractWikiLinksFromBody(body),
                            !.applied = TRUE]
  /\ UNCHANGED <<env, nextRequestId, cancelsSent, dbPromise, awaiting, cancelledRequestIds,
                 posted, storeVars, corruptions, lastOp, cancelNamed, cancelEarly, clean,
                 initStarts, initFault, client, repository, noteSearch>>

\* normalizeWikiLabelToPath is called on the label.
NormalizeLabel ==
  /\ env = "labels"
  /\ ~pure.applied
  /\ pure' = [pure EXCEPT !.output = NormalizeWikiLabelToPath(AsText(pure.input)),
                          !.applied = TRUE]
  /\ UNCHANGED <<env, nextRequestId, cancelsSent, dbPromise, awaiting, cancelledRequestIds,
                 posted, storeVars, corruptions, lastOp, cancelNamed, cancelEarly, clean,
                 initStarts, initFault, client, repository, noteSearch>>

ExtractNext == ExtractLinks \/ NormalizeLabel

ExtractSpec == ExtractInit /\ [][ExtractNext]_vars

\* ---------------------------------------------------------------------------
\* normalizePath of the navigation module.
\* A path is a sequence of characters out of PathChars: the two separators, the
\* dot, a blank, a letter, "U+0001" for a character of code <= 0x1f and
\* "U+007F" for a control character above 0x1f (DEL and the C1 range).

MaxPathChars == 5

LowControls == {"U+0001"}
ControlChars == LowControls \cup {"U+007F"}
PathChars == {"/", "\\", ".", " ", "a"} \cup ControlChars

Paths == SeqsUpTo(PathChars, MaxPathChars)

\* value.startsWith("/") ? value : `/${value}`
EnsureLeadingSlash(value) ==
  IF Len(value) > 0 /\ value[1] = "/" THEN value ELSE <<"/">> \o value

\* value.replace(/\/+$/, ""), the root left as it is.
RECURSIVE StripTrailingSlashes(_)
StripTrailingSlashes(value) ==
  IF Len(value) > 0 /\ value[Len(value)] = "/"
  THEN StripTrailingSlashes(SubSeq(value, 1, Len(value) - 1))
  ELSE value

TrimTrailingSlashes(value) ==
  IF value = <<"/">> THEN value ELSE StripTrailingSlashes(value)

\* value.replace(/\\/g, "/")
NormalizeSeparators(value) ==
  [i \in 1..Len(value) |-> IF value[i] = "\\" THEN "/" ELSE value[i]]

\* value.split("/"): the pieces between the slashes, the empty ones included.
RECURSIVE SplitAtSlashes(_)
SplitAtSlashes(value) ==
  LET slashes == {i \in 1..Len(value) : value[i] = "/"} IN
    IF slashes = {} THEN <<value>>
    ELSE LET first == CHOOSE i \in slashes : \A j \in slashes : i <= j IN
           <<SubSeq(value, 1, first - 1)>>
             \o SplitAtSlashes(SubSeq(value, first + 1, Len(value)))

\* segments.join("/")
RECURSIVE JoinWithSlashes(_)
JoinWithSlashes(segments) ==
  IF segments = <<>> THEN <<>>
  ELSE IF Len(segments) = 1 THEN segments[1]
  ELSE segments[1] \o <<"/">> \o JoinWithSlashes(Tail(segments))

\* The loop of sanitizePathSegment keeps a character unless its code is 0x1f
\* or less or it is a slash; the kept text is trimmed.
KeptInSegment(char) == char \notin LowControls /\ char # "/"

SanitizePathSegment(segment) == Trim(SelectSeq(segment, KeptInSegment))

\* segments.pop() on an array that may be empty.
Pop(segments) ==
  IF segments = <<>> THEN <<>> ELSE SubSeq(segments, 1, Len(segments) - 1)

\* The loop of buildNormalizedSegments over the segments left, with the
\* segments pushed so far.
RECURSIVE BuildNormalizedSegments(_, _)
BuildNormalizedSegments(segments, normalizedSegments) ==
  IF segments = <<>> THEN normalizedSegments
  ELSE LET rawSegment == segments[1]
           sanitized == SanitizePathSegment(rawSegment) IN
    IF rawSegment = <<>> \/ rawSegment = <<".">>
    THEN BuildNormalizedSegments(Tail(segments), normalizedSegments)
    ELSE IF rawSegment = <<".", ".">>
    THEN BuildNormalizedSegments(Tail(segments), Pop(normalizedSegments))
    ELSE IF sanitized = <<>> \/ sanitized = <<".">>
    THEN BuildNormalizedSegments(Tail(segments), normalizedSegments)
    ELSE IF sanitized = <<".", ".">>
    THEN BuildNormalizedSegments(Tail(segments), Pop(normalizedSegments))
    ELSE BuildNormalizedSegments(Tail(segments), Append(normalizedSegments, sanitized))

NormalizePath(path) ==
  LET decoded == EnsureLeadingSlash(path)
      trimmed == TrimTrailingSlashes(decoded)
      normalizedSlashes == NormalizeSeparators(trimmed)
      normalizedSegments ==
        BuildNormalizedSegments(SplitAtSlashes(normalizedSlashes), <<>>) IN
    IF normalizedSegments = <<>> THEN <<"/">>
    ELSE <<"/">> \o JoinWithSlashes(normalizedSegments)

\* The path workload: normalizePath is called on a path, and then on its own
\* result. pure.held is the first result, pure.output the second, pure.seen
\* the number of calls made.
PathInit ==
  /\ env = "paths"
  /\ InitWorker
  /\ client = IdleClient
  /\ repository = NoRepository /\ noteSearch = IdleSearch
  /\ pure \in {[NoPure EXCEPT !.input = p, !.held = <<>>, !.output = <<>>] : p \in Paths}

NormalizeOnce ==
  /\ env = "paths"
  /\ pure.seen = 0
  /\ pure' = [pure EXCEPT !.held = NormalizePath(pure.input), !.seen = 1]
  /\ UNCHANGED <<env, nextRequestId, cancelsSent, dbPromise, awaiting, cancelledRequestIds,
                 posted, storeVars, corruptions, lastOp, cancelNamed, cancelEarly, clean,
                 initStarts, initFault, client, repository, noteSearch>>

NormalizeAgain ==
  /\ env = "paths"
  /\ pure.seen = 1
  /\ pure' = [pure EXCEPT !.output = NormalizePath(pure.held), !.seen = 2,
                          !.applied = TRUE]
  /\ UNCHANGED <<env, nextRequestId, cancelsSent, dbPromise, awaiting, cancelledRequestIds,
                 posted, storeVars, corruptions, lastOp, cancelNamed, cancelEarly, clean,
                 initStarts, initFault, client, repository, noteSearch>>

PathNext == NormalizeOnce \/ NormalizeAgain

PathSpec == PathInit /\ [][PathNext]_vars

\* The service workload: a NoteService over the in-memory repository, empty or
\* seeded, and up to MaxServiceCalls calls of saveNote, deleteNote and
\* loadNote.
ServiceNotes ==
  {Note(PathA, TitleT, BodyLinkB, Stamp0), Note(PathA, TitleT, BodyLinkA, Stamp0),
   Note(PathB, TitleT, BodyLinkA, Stamp0)}

ServicePaths == {PathA, PathB, <<>>}

InitialNotes ==
  {<<>>, <<Note(PathA, TitleT, BodyLinkB, Stamp0), Note(PathB, TitleT, BodyLinkA, Stamp0)>>,
   <<Note(PathA, TitleT, BodyLinkB, Stamp0), Note(PathA, TitleT, BodyLinkA, Stamp0)>>}

ServiceInit ==
  /\ env = "service"
  /\ InitWorker
  /\ client = IdleClient
  /\ pure = NoPure
  /\ repository \in {RepositoryOf(initialNotes) : initialNotes \in InitialNotes}
  /\ noteSearch = IdleSearch

ServiceUnchanged ==
  UNCHANGED <<env, nextRequestId, cancelsSent, dbPromise, awaiting, cancelledRequestIds,
              posted, storeVars, corruptions, lastOp, cancelNamed, cancelEarly, clean,
              initStarts, initFault, client, pure, noteSearch>>

\* createNoteService.saveNote
ServiceSaveNote ==
  /\ env = "service"
  /\ repository.calls < MaxServiceCalls
  /\ \E note \in ServiceNotes :
       repository' = Called(repository, "saveNote", note.path,
                            SaveToRepository(repository.notes, note),
                            [settled |-> "resolved", value |-> NullNote])
  /\ ServiceUnchanged

\* createNoteService.deleteNote
ServiceDeleteNote ==
  /\ env = "service"
  /\ repository.calls < MaxServiceCalls
  /\ \E path \in ServicePaths :
       repository' = Called(repository, "deleteNote", path,
                            DeleteFromRepository(repository.notes, path),
                            [settled |-> "resolved", value |-> NullNote])
  /\ ServiceUnchanged

\* createNoteService.loadNote
ServiceLoadNote ==
  /\ env = "service"
  /\ repository.calls < MaxServiceCalls
  /\ \E path \in ServicePaths :
       repository' = Called(repository, "loadNote", path, repository.notes,
                            LoadByPath(repository.notes, path))
  /\ ServiceUnchanged

ServiceNext == ServiceSaveNote \/ ServiceDeleteNote \/ ServiceLoadNote

ServiceSpec == ServiceInit /\ [][ServiceNext]_vars

\* The hook workload: up to MaxSearches calls of handleSearch, the debounce
\* timer and the completions of the searches, in every order.
HookInit ==
  /\ env = "hook"
  /\ InitWorker
  /\ client = IdleClient
  /\ pure = NoPure
  /\ repository = NoRepository
  /\ noteSearch = IdleSearch

HookUnchanged ==
  UNCHANGED <<env, nextRequestId, cancelsSent, dbPromise, awaiting, cancelledRequestIds,
              posted, storeVars, corruptions, lastOp, cancelNamed, cancelEarly, clean,
              initStarts, initFault, client, pure, repository>>

\* The user changes the text of the search box.
TypeQuery ==
  /\ env = "hook"
  /\ noteSearch.latest < MaxSearches
  /\ \E nextQuery \in SearchQueries : noteSearch' = HandleSearch(noteSearch, nextQuery)
  /\ HookUnchanged

\* SEARCH_DEBOUNCE_MS after the last handleSearch the timer fires.
DebounceFires ==
  /\ env = "hook"
  /\ noteSearch.debounce # 0
  /\ noteSearch' = StartScheduledSearch(noteSearch)
  /\ HookUnchanged

\* tryRemoteSearch of a running search returns.
SearchCompletes ==
  /\ env = "hook"
  /\ \E requestId \in noteSearch.running, outcome \in {"rows", "empty", "failed"} :
       noteSearch' = FinishScheduledSearch(noteSearch, requestId, outcome)
  /\ HookUnchanged

HookNext == TypeQuery \/ DebounceFires \/ SearchCompletes

HookSpec == HookInit /\ [][HookNext]_vars

\* The liveness workload when the initialization settles and every suspended
\* continuation gets to run.
LiveSpec == LiveInit /\ [][Next]_vars /\ WF_vars(InitFinish) /\ WF_vars(Resume)

\* The liveness workload when, besides, every message the client has to send
\* arrives: each of its requests is dispatched in the end.
DrainSpec ==
  LiveInit /\ [][Next]_vars /\ WF_vars(InitFinish) /\ WF_vars(Resume) /\ WF_vars(OnMessage)

\* ------------------------------------------------------------------------
\* Properties
\* ------------------------------------------------------------------------

\* C1: a request id named by a cancel notice that the worker processed while
\* no response for that id had been posted never gets a response envelope,
\* whether the handler's writes were applied or not.
C1_CancelledGetsNoResponse == \A n \in cancelEarly : Responses(n) = {}

\* A saveNote whose cancel notice arrived during the initialization: the
\* handler ran, wrote, and its envelope was withheld.
C1_Witness ==
  /\ lastOp.id \in cancelEarly
  /\ lastOp.type = "saveNote"
  /\ lastOp.ok
  /\ lastOp.posts
  /\ ~lastOp.answered
  /\ PathA \in DOMAIN pages

\* C2: every request the worker received whose id no cancel notice ever names
\* eventually has exactly one response envelope with its id, and no id ever
\* has more than one.
C2_ExactlyOneResponse ==
  /\ [](\A n \in 1..MaxRequests : Cardinality(Responses(n)) <= 1)
  /\ \A n \in 1..MaxRequests :
       (nextRequestId > n) ~> (n \in cancelNamed \/ Cardinality(Responses(n)) = 1)

\* A bulkSaveNotes that failed twice and answered once, with no cancel notice
\* for it.
C2_Witness ==
  /\ lastOp.type = "bulkSaveNotes"
  /\ Len(lastOp.trace) = 2
  /\ ~lastOp.ok
  /\ lastOp.id \notin cancelNamed
  /\ Cardinality(Responses(lastOp.id)) = 1


\* The step in which the handler of a request of the given type runs.
Handles(type) ==
  /\ dbPromise \in {"db", "unavailable"}
  /\ awaiting # <<>>
  /\ awaiting[NextContinuation(awaiting)].type = type
  /\ Len(awaiting') = Len(awaiting) - 1

\* The records of the bulkSaveNotes request that ran last.
LastBulkNotes == IF lastOp.payload.isArray THEN lastOp.payload.notes ELSE <<>>

\* C3: a bulkSaveNotes whose outcome is an error leaves the documents and the
\* link rows as they were before it ran.
C3_BulkErrorLeavesStore ==
  [][(Handles("bulkSaveNotes") /\ ~lastOp'.ok) => (pages' = pages /\ links' = links)]_vars

\* A batch of a valid and an invalid record was refused and the earlier
\* corpus is still there.
C3_Witness ==
  /\ lastOp.type = "bulkSaveNotes"
  /\ ~lastOp.ok
  /\ lastOp.error = "Invalid note payload during import"
  /\ Len(LastBulkNotes) = 2
  /\ DOMAIN pages = {PathA, PathB}

\* C4, as stated: after an ok bulkSaveNotes the documents are the records of
\* the input, one per input path with that record's title and body.
C4_Original ==
  (lastOp.type = "bulkSaveNotes" /\ lastOp.ok) =>
    /\ DOMAIN pages = {LastBulkNotes[i].path : i \in 1..Len(LastBulkNotes)}
    /\ \A i \in 1..Len(LastBulkNotes) :
         /\ pages[LastBulkNotes[i].path].title = LastBulkNotes[i].title
         /\ pages[LastBulkNotes[i].path].body = LastBulkNotes[i].body

\* C4, amended: after an ok bulkSaveNotes there is one document per distinct
\* trimmed input path and no other; it carries the trimmed title and body of
\* the last record with that path.
C4_BulkReplacesCorpus ==
  (lastOp.type = "bulkSaveNotes" /\ lastOp.ok) =>
    /\ DOMAIN pages = {Trim(LastBulkNotes[i].path) : i \in 1..Len(LastBulkNotes)}
    /\ \A p \in DOMAIN pages :
         \E i \in 1..Len(LastBulkNotes) :
           /\ Trim(LastBulkNotes[i].path) = p
           /\ \A j \in (i + 1)..Len(LastBulkNotes) : Trim(LastBulkNotes[j].path) # p
           /\ pages[p].title = Trim(LastBulkNotes[i].title)
           /\ pages[p].body = Trim(LastBulkNotes[i].body)

\* An ok import of two records that name the same path with different bodies.
C4_Witness ==
  /\ lastOp.type = "bulkSaveNotes"
  /\ lastOp.ok
  /\ Len(LastBulkNotes) = 2
  /\ Trim(LastBulkNotes[1].path) = Trim(LastBulkNotes[2].path)
  /\ LastBulkNotes[1].body # LastBulkNotes[2].body
  /\ DOMAIN pages = {PathA}

\* C5: a bulkSaveNotes on an open database runs its transaction once or twice;
\* twice only after a first failure with SQLITE_CORRUPT_VTAB and exactly one
\* rebuild; the outcome of the last run is what it answers.
C5_AtMostOneRetry ==
  (lastOp.type = "bulkSaveNotes" /\ lastOp.error # "SQLite database is not available") =>
    /\ Len(lastOp.trace) \in 1..2
    /\ lastOp.rebuilds = Len(lastOp.trace) - 1
    /\ Len(lastOp.trace) = 2 => IsSqliteCorruptVtabError(lastOp.trace[1])
    /\ lastOp.posts
    /\ lastOp.ok = (lastOp.trace[Len(lastOp.trace)] = "")
    /\ lastOp.error = lastOp.trace[Len(lastOp.trace)]

\* The second attempt met the corruption again: one rebuild, an error answer.
C5_Witness ==
  /\ lastOp.type = "bulkSaveNotes"
  /\ lastOp.trace = <<"SQLITE_CORRUPT_VTAB", "SQLITE_CORRUPT_VTAB">>
  /\ lastOp.rebuilds = 1
  /\ ~lastOp.ok

\* C6, as stated: after requests that all completed without a failure, the
\* link rows of every source are the links extracted from the body of its
\* document, and there are none for a path without a document.
C6_LinksDerivedFromBodies ==
  clean =>
    \A s \in DOMAIN pages \cup {l.source : l \in links} :
      {l \in links : l.source = s} =
        IF s \in DOMAIN pages THEN LinkRows(s, pages[s].body) ELSE {}

\* An ok import of PathA twice: the document's body links to PathA only, and
\* the link row of the first record, to PathB, is still there.
C6_Witness ==
  /\ lastOp.type = "bulkSaveNotes"
  /\ lastOp.ok
  /\ clean
  /\ DOMAIN pages = {PathA}
  /\ LinkRows(PathA, pages[PathA].body) = {[source |-> PathA, target |-> PathA, display |-> <<"A">>]}
  /\ [source |-> PathA, target |-> PathB, display |-> <<"B">>] \in links

\* C7, as stated: after an ok saveNote of d, loadNotes has a row with the
\* path, title and body of d and d's updatedAt, or the save time without one.
C7_Original ==
  (lastOp.type = "saveNote" /\ lastOp.ok) =>
    \E row \in LoadNotes(Db) :
      /\ row.path = lastOp.payload.note.path
      /\ row.title = lastOp.payload.note.title
      /\ row.body = lastOp.payload.note.body
      /\ row.updatedAt = IF lastOp.payload.note.updatedAt # NoValue
                           THEN lastOp.payload.note.updatedAt
                           ELSE lastOp.now

\* C7, amended: after an ok saveNote of d, loadNotes has a row with the
\* trimmed path, title and body of d and d's updatedAt, or the save time
\* without one.
C7_SaveThenLoad ==
  (lastOp.type = "saveNote" /\ lastOp.ok) =>
    \E row \in LoadNotes(Db) :
      /\ row.path = Trim(lastOp.payload.note.path)
      /\ row.title = Trim(lastOp.payload.note.title)
      /\ row.body = Trim(lastOp.payload.note.body)
      /\ row.updatedAt = IF lastOp.payload.note.updatedAt # NoValue
                           THEN lastOp.payload.note.updatedAt
                           ELSE lastOp.now

\* A note without updatedAt and with blanks around its body was saved.
C7_Witness ==
  /\ lastOp.type = "saveNote"
  /\ lastOp.ok
  /\ lastOp.payload.note.updatedAt = NoValue
  /\ lastOp.payload.note.body # Trim(lastOp.payload.note.body)
  /\ PathA \in DOMAIN pages
  /\ pages[PathA].updatedAt = lastOp.now

\* C8: an ok saveNote right after an ok saveNote of the same path and body,
\* neither of which met a storage failure, leaves the link rows as the first
\* left them.
C8_SaveTwiceSameLinks ==
  [][(/\ Handles("saveNote")
      /\ lastOp.type = "saveNote"
      /\ lastOp.ok /\ ~lastOp.faulted
      /\ lastOp'.ok /\ ~lastOp'.faulted
      /\ lastOp'.payload.note.path = lastOp.payload.note.path
      /\ lastOp'.payload.note.body = lastOp.payload.note.body)
     => links' = links]_vars

\* The same note was saved twice, and its source has link rows.
C8_Witness ==
  /\ lastOp.type = "saveNote"
  /\ lastOp.again
  /\ lastOp.ok
  /\ ~lastOp.faulted
  /\ \E l \in links : l.source = Trim(lastOp.payload.note.path)

\* C9: after an ok deleteNote of p there is no document p, no link row with
\* source p, and listBacklinks returns p for no target.
C9_DeleteCascades ==
  (lastOp.type = "deleteNote" /\ lastOp.ok) =>
    /\ lastOp.payload.path \notin DOMAIN pages
    /\ \A l \in links : l.source # lastOp.payload.path
    /\ \A t \in {l.target : l \in links} \cup {PathA, PathB} :
         lastOp.payload.path \notin ListBacklinks(Db, [path |-> t])

\* PathA was deleted while PathB, which links to it, is still there.
C9_Witness ==
  /\ lastOp.type = "deleteNote"
  /\ lastOp.ok
  /\ lastOp.payload.path = PathA
  /\ PathB \in DOMAIN pages
  /\ \E l \in links : l.source = PathB /\ l.target = PathA

\* C10, as stated: the handler of a runQuery request changes neither the
\* documents, nor the link rows, nor the search index.
C10_RunQueryReadOnly ==
  [][Handles("runQuery") => (pages' = pages /\ links' = links /\ fts' = fts)]_vars

\* A query that begins with "with" was answered ok and the documents and the
\* entries of the search index are gone.
C10_Witness ==
  /\ lastOp.type = "runQuery"
  /\ lastOp.ok
  /\ lastOp.payload.query = <<"WITH", "delete">>
  /\ pages = EmptyPages
  /\ fts = {}
  /\ links # {}

\* The messages with which handleRunQuery answers before it reaches db.exec.
QueryRefusals ==
  {"Query is empty", "Only a single query is supported", "Only SELECT queries are supported"}

\* C11, as stated: a runQuery whose text, after its trailing semicolons are
\* stripped, contains a semicolon or does not begin with select or with is
\* answered with an error and leaves the store alone; a single statement that
\* begins with select, run without a storage failure, is answered ok.
C11_Original ==
  [][(Handles("runQuery") /\ dbPromise = "db") =>
       LET q == StripTrailingSemicolons(Trim(lastOp'.payload.query))
           refused == \/ q = <<>>
                      \/ \E i \in 1..Len(q) : q[i] = ";"
                      \/ LowerCase(Head(q)) \notin {"select", "selectx", "with"}
       IN /\ refused => (~lastOp'.ok /\ pages' = pages /\ links' = links /\ fts' = fts)
          /\ (~refused /\ LowerCase(Head(q)) \in {"select", "selectx"} /\ ~lastOp'.faulted)
               => lastOp'.ok]_vars

\* C11, amended: such a text is refused with one of the three messages of the
\* checks and leaves the store alone; any other text is handed to the engine
\* and is answered ok or with the error the engine raised, and a well-formed
\* select that meets no storage failure is answered ok.
C11_QueryChecks ==
  [][(Handles("runQuery") /\ dbPromise = "db") =>
       LET q == StripTrailingSemicolons(Trim(lastOp'.payload.query))
           refused == \/ q = <<>>
                      \/ \E i \in 1..Len(q) : q[i] = ";"
                      \/ LowerCase(Head(q)) \notin {"select", "selectx", "with"}
       IN /\ refused => /\ ~lastOp'.ok
                        /\ lastOp'.error \in QueryRefusals
                        /\ pages' = pages /\ links' = links /\ fts' = fts
          /\ ~refused => /\ lastOp'.error \notin QueryRefusals
                         /\ lastOp'.ok = (lastOp'.error = "")
          /\ (~refused /\ LowerCase(Head(q)) = "select" /\ ~lastOp'.faulted)
               => lastOp'.ok]_vars

\* Two statements in one text were refused and the documents are still there.
C11_Witness ==
  /\ lastOp.type = "runQuery"
  /\ lastOp.payload.query = <<"select", ";", "select">>
  /\ lastOp.error = "Only a single query is supported"
  /\ pages # EmptyPages

\* C12: for a query of n rows the result has min(n, 200) rows and truncated
\* is true exactly when n > 200.
C12_RowCap ==
  pure.applied =>
    /\ pure.output.rows = (IF pure.input < 200 THEN pure.input ELSE 200)
    /\ pure.output.truncated = (pure.input > 200)

\* A query of 201 rows: 200 rows come back, truncated.
C12_Witness ==
  /\ pure.applied
  /\ pure.input = 201
  /\ pure.output = [rows |-> 200, truncated |-> TRUE]

\* C13, as stated: a saveNote whose path or title is empty or longer than its
\* bound, or whose body is longer than its bound, is answered with the
\* validation error and changes neither the documents nor the link rows.
C13_Original ==
  [][(Handles("saveNote") /\ dbPromise = "db") =>
       LET note == lastOp'.payload.note
           invalid == \/ AsText(note.path) = <<>>
                      \/ TextLen(AsText(note.path)) > 512
                      \/ AsText(note.title) = <<>>
                      \/ TextLen(AsText(note.title)) > 1024
                      \/ TextLen(AsText(note.body)) > 50000
       IN invalid => /\ ~lastOp'.ok
                     /\ lastOp'.error = "Invalid note payload"
                     /\ pages' = pages /\ links' = links]_vars

\* C13, amended: the same of a saveNote whose path or title, with the
\* whitespace at its ends removed, is empty or longer than its bound, or
\* whose body so trimmed is longer than its bound.
C13_InvalidNoteRefused ==
  [][(Handles("saveNote") /\ dbPromise = "db") =>
       LET note == lastOp'.payload.note
           invalid == \/ Trim(AsText(note.path)) = <<>>
                      \/ TextLen(Trim(AsText(note.path))) > 512
                      \/ Trim(AsText(note.title)) = <<>>
                      \/ TextLen(Trim(AsText(note.title))) > 1024
                      \/ TextLen(Trim(AsText(note.body))) > 50000
       IN invalid => /\ ~lastOp'.ok
                     /\ lastOp'.error = "Invalid note payload"
                     /\ pages' = pages /\ links' = links]_vars

\* A note whose title has 1025 characters was refused, and the document saved
\* before under its path has kept its title.
C13_Witness ==
  /\ lastOp.type = "saveNote"
  /\ lastOp.payload.note.title = <<"X1024", "x">>
  /\ lastOp.error = "Invalid note payload"
  /\ PathA \in DOMAIN pages
  /\ pages[PathA].title = TitleT

\* C14, as stated: a saveNote or deleteNote that is answered with an error
\* has changed neither the documents nor the link rows.
C14_ErrorLeavesStore ==
  [][((Handles("saveNote") \/ Handles("deleteNote")) /\ ~lastOp'.ok)
       => (pages' = pages /\ links' = links)]_vars

\* A saveNote was answered with the failure of its link insert: the document
\* has the new body and its source has no link rows.
C14_Witness ==
  /\ lastOp.type = "saveNote"
  /\ ~lastOp.ok
  /\ lastOp.error = "storage failure"
  /\ lastOp.payload.note = Note(PathA, TitleT, BodyLinkA, NoValue)
  /\ PathA \in DOMAIN pages
  /\ pages[PathA].body = Trim(BodyLinkA)
  /\ \A l \in links : l.source # PathA

\* The continuation of a request runs.
HandlesRequest ==
  /\ dbPromise \in {"db", "unavailable"}
  /\ awaiting # <<>>
  /\ Len(awaiting') = Len(awaiting) - 1

C16_InOrder ==
  [][/\ HandlesRequest =>
          /\ lastOp'.id = awaiting[1].id
          /\ \A i \in 2..Len(awaiting) : awaiting[1].id < awaiting[i].id
          /\ lastOp.id < lastOp'.id
     /\ \A i, j \in 1..Len(posted') : i < j => posted'[i].id < posted'[j].id]_vars

\* The first request has been handled and answered, the second one waits.
C16_Witness ==
  /\ dbPromise = "db"
  /\ Len(awaiting) = 1
  /\ awaiting[1].id = 2
  /\ lastOp.id = 1
  /\ Len(posted) = 1
  /\ posted[1].id = 1

\* C17: the handler of a saveNote, deleteNote or bulkSaveNotes whose id is in
\* cancelledRequestIds leaves the store that the handler leaves for the same
\* request on the same store, posts nothing and takes the id out of the set.
C17_CancelKeepsWork ==
  [][(HandlesRequest /\ dbPromise = "db"
        /\ awaiting[1].type \in {"saveNote", "deleteNote", "bulkSaveNotes"}
        /\ awaiting[1].id \in cancelledRequestIds) =>
       /\ posted' = posted
       /\ cancelledRequestIds' = cancelledRequestIds \ {awaiting[1].id}
       /\ \E ch \in Choices(awaiting[1].type) :
            \E out \in {RunHandler("db", Db, awaiting[1], ch)} :
              /\ pages' = out.db.pages
              /\ links' = out.db.links
              /\ fts' = out.db.fts
              /\ lastOp'.ok = out.ok
              /\ lastOp'.error = out.error]_vars

\* A saveNote that was cancelled while it waited has written its document and
\* its link row, and no response was posted.
C17_Witness ==
  /\ lastOp.type = "saveNote"
  /\ lastOp.ok
  /\ ~lastOp.answered
  /\ lastOp.id \in cancelNamed
  /\ Responses(lastOp.id) = {}
  /\ PathA \in DOMAIN pages
  /\ links # {}

\* C20: the initialization is started at most once, by the first request; once
\* it has settled the promise stays as it is; and every request is answered
\* "not available" exactly when the initialization has failed.
C20_InitOnce ==
  [][/\ initStarts' <= 1
     /\ dbPromise # "null" => initStarts' = initStarts
     /\ dbPromise \in {"db", "unavailable"} => dbPromise' = dbPromise
     /\ HandlesRequest =>
          ((lastOp'.error = "SQLite database is not available")
             = (dbPromise = "unavailable"))]_vars

\* Two requests were answered by the one initialization, which failed.
C20_Witness ==
  /\ initStarts = 1
  /\ dbPromise = "unavailable"
  /\ Len(posted) = 2
  /\ posted[1] = [id |-> 1, ok |-> FALSE]
  /\ posted[2] = [id |-> 2, ok |-> FALSE]
  /\ lastOp.error = "SQLite database is not available"

\* C18, as stated: every request id that is in cancelledRequestIds is taken
\* out of it in the end.
C18_CancelledIdsDrain ==
  \A n \in 1..MaxRequests : (n \in cancelledRequestIds) ~> (n \notin cancelledRequestIds)

\* The cancel notice of request 1 was processed after its response had been
\* posted; every request has been handled and the id is still in the set.
C18_Witness ==
  /\ 1 \in cancelledRequestIds
  /\ Responses(1) # {}
  /\ 1 \notin cancelEarly
  /\ nextRequestId > MaxRequests
  /\ awaiting = <<>>

\* C19: when the timeout of a request fires while its entry is registered,
\* its promise is rejected with the timeout failure, the entry is deleted and
\* a cancelRequest naming its id is posted; and a response that arrives for an
\* id whose promise the timeout rejected settles no promise and deletes no
\* entry.
C19_TimeoutThenLateResponse ==
  [][/\ \A id \in client.timers \cap client.pendingRequests :
          (client' # client /\ client'.last = [event |-> "timeout", id |-> id]) =>
            /\ client.promises[id] = "pending"
            /\ client'.promises = [client.promises EXCEPT ![id] = "SQLite worker timed out"]
            /\ id \notin client'.pendingRequests
            /\ client'.sent =
                 Append(client.sent, [id |-> id, type |-> "cancelRequest", targetId |-> id])
     /\ \A id \in DOMAIN client.promises :
          (client.promises[id] = "SQLite worker timed out"
             /\ client'.last = [event |-> "response", id |-> id]) =>
            /\ client'.promises = client.promises
            /\ client'.pendingRequests = client.pendingRequests]_vars

\* The response of request 1 arrived after its timeout: the promise is still
\* rejected with the timeout failure, and the cancel notice follows the
\* request.
C19_Witness ==
  /\ client.last = [event |-> "response", id |-> 1]
  /\ client.promises[1] = "SQLite worker timed out"
  /\ client.sent = <<[id |-> 1, type |-> "request", targetId |-> 0],
                     [id |-> 1, type |-> "cancelRequest", targetId |-> 1]>>
  /\ 1 \notin client.held

\* C21: once the initialization has failed the promise stays failed and no
\* initialization is started; the handler of every request, of any type,
\* leaves the store alone and answers ok:false with "SQLite database is not
\* available", which is posted unless the id is cancelled.
C21_FailedInitIsFinal ==
  [][dbPromise = "unavailable" =>
       /\ dbPromise' = "unavailable"
       /\ initStarts' = initStarts
       /\ UNCHANGED storeVars
       /\ HandlesRequest =>
            /\ ~lastOp'.ok
            /\ lastOp'.error = "SQLite database is not available"
            /\ posted' = IF awaiting[1].id \in cancelledRequestIds THEN posted
                         ELSE Append(posted, [id |-> awaiting[1].id, ok |-> FALSE])]_vars

\* The initialization failed, request 1 was answered, and request 2, a
\* loadNotes received after that, was answered "not available" as well.
C21_Witness ==
  /\ dbPromise = "unavailable"
  /\ initStarts = 1
  /\ lastOp.id = 2
  /\ lastOp.type = "loadNotes"
  /\ lastOp.error = "SQLite database is not available"
  /\ lastOp.answered
  /\ Len(posted) = 2

\* C22: an initialization during which the creation of pages_fts, of one of
\* its triggers or of an index of the links table raised ends with the handle
\* and with the documents of the file; one during which CREATE TABLE pages
\* raised ends without handle.  After the former a loadNotes, a saveNote and a
\* deleteNote that meet no storage failure are answered ok and have their
\* effect on the documents.
C22_InitFailures ==
  [][/\ (dbPromise = "pending" /\ dbPromise' # "pending") =>
          /\ initFault' \in FtsFaults \cup {"linkIndex"} =>
               (dbPromise' = "db" /\ pages' \in {file.pages : file \in SchemaStores})
          /\ initFault' = "pagesTable" => dbPromise' = "unavailable"
     /\ (/\ HandlesRequest
         /\ dbPromise = "db"
         /\ initFault \in FtsFaults \cup {"linkIndex"}
         /\ ftsState # "corrupt"
         /\ ~lastOp'.faulted) =>
          /\ lastOp'.ok
          /\ lastOp'.type = "loadNotes" => pages' = pages
          /\ lastOp'.type = "saveNote" =>
               /\ Trim(lastOp'.payload.note.path) \in DOMAIN pages'
               /\ pages'[Trim(lastOp'.payload.note.path)].body = Trim(lastOp'.payload.note.body)
          /\ lastOp'.type = "deleteNote" => lastOp'.payload.path \notin DOMAIN pages']_vars

\* The creation of the trigger pages_ad failed on a new file; a document was
\* saved and deleted, both ok, and its entry is still in the search index.
C22_Witness ==
  /\ initFault = "triggerAd"
  /\ dbPromise = "db"
  /\ lastOp.type = "deleteNote"
  /\ lastOp.ok
  /\ PathA \notin DOMAIN pages
  /\ \E e \in fts : e.path = PathA

C24_BacklinksFollowBodies ==
  clean =>
    \A a, b \in DOMAIN pages :
      (/\ \E l \in LinkRows(a, pages[a].body) : l.target = b
       /\ \A l \in LinkRows(b, pages[b].body) : l.target # b)
        => /\ a \in ListBacklinks(Db, [path |-> b])
           /\ b \notin ListBacklinks(Db, [path |-> b])

\* PathA was imported twice, first with a link to itself, and PathB saved with
\* a link to PathA: the body of PathA links to PathB only, and listBacklinks
\* of PathA returns PathB and PathA.
C24_Witness ==
  /\ clean
  /\ DOMAIN pages = {PathA, PathB}
  /\ pages[PathA].body = BodyLinkB
  /\ pages[PathB].body = Trim(BodyLinkA)
  /\ ListBacklinks(Db, [path |-> PathA]) = {PathA, PathB}

\* C25: the rows of an ok listBacklinks, whatever order the engine gives to
\* documents with equal updatedAt: none for a blank target; otherwise no path
\* twice, only paths that have a document and a link row to the trimmed
\* target, every such path, updatedAt never increasing along the rows, and at
\* most 100 rows.  On a store with n documents that link to one target the
\* query returns min(n, 100) rows.
C25_BacklinkRows ==
  /\ (dbPromise = "db" /\ lastOp.type = "listBacklinks" /\ lastOp.ok) =>
       \A tiebreak \in TieBreaks(DOMAIN pages) :
         LET rows == ListBacklinkRows(Db, lastOp.payload, tiebreak)
             target == Trim(lastOp.payload.path)
         IN /\ target = <<>> => rows = <<>>
            /\ \A i, j \in 1..Len(rows) : i < j => rows[i] # rows[j]
            /\ \A i \in 1..Len(rows) :
                 /\ rows[i] \in DOMAIN pages
                 /\ \E l \in links : l.source = rows[i] /\ l.target = target
            /\ target # <<>> =>
                 \A q \in DOMAIN pages :
                   (\E l \in links : l.source = q /\ l.target = target)
                     => \E i \in 1..Len(rows) : rows[i] = q
            /\ \A i, j \in 1..Len(rows) :
                 i < j => StampRank(pages[rows[i]].updatedAt)
                            >= StampRank(pages[rows[j]].updatedAt)
            /\ Len(rows) <= 100
  /\ pure.applied =>
       /\ pure.output.rows = (IF pure.input < 100 THEN pure.input ELSE 100)
       /\ pure.output.truncated = (pure.input > 100)

\* listBacklinks of " /pages/A " on a store where PathB, saved first, has two
\* link rows to PathA and PathA links to itself: PathA, then PathB.
C25_Witness ==
  /\ lastOp.type = "listBacklinks"
  /\ lastOp.ok
  /\ lastOp.payload.path = <<" ">> \o PathA \o <<" ">>
  /\ Cardinality({l \in links : l.source = PathB /\ l.target = PathA}) = 2
  /\ DOMAIN pages = {PathA, PathB}
  /\ StampRank(pages[PathA].updatedAt) > StampRank(pages[PathB].updatedAt)
  /\ \A tiebreak \in TieBreaks(DOMAIN pages) :
       ListBacklinkRows(Db, lastOp.payload, tiebreak) = <<PathA, PathB>>

\* ------------------------------------------------------------------------
\* C26, C27: the links of a body and the target of a label.
\* ------------------------------------------------------------------------

\* The labels written in double brackets in a body, in the order of the text.
RECURSIVE WrittenLabels(_)
WrittenLabels(parts) ==
  IF parts = <<>> THEN <<>>
  ELSE (IF parts[1].kind \in {"label", "nested"} /\ parts[1].text # <<>>
          THEN <<parts[1].text>> ELSE <<>>) \o WrittenLabels(Tail(parts))

\* A sequence without the later occurrences of its elements.
FirstOccurrences(seq) ==
  LET firsts == {i \in 1..Len(seq) : \A j \in 1..(i - 1) : seq[j] # seq[i]}
      nth[k \in 1..Cardinality(firsts)] ==
        CHOOSE i \in firsts : Cardinality({j \in firsts : j < i}) = k - 1
  IN [k \in 1..Cardinality(firsts) |-> seq[nth[k]]]

HasPagesPrefix(label) == Len(label) >= 7 /\ SubSeq(label, 1, 7) = PagesPrefix

TrimmedLabels(labels) ==
  LET trimmed == [i \in 1..Len(labels) |-> Trim(labels[i])]
  IN SelectSeq(trimmed, LAMBDA l : l # <<>>)

C27_PrefixedLabelKept ==
  (env = "labels" /\ pure.applied /\ pure.input # NoValue) =>
    LET label == Trim(pure.input)
        single == <<"/">> \o StripLeadingSlashes(label)
    IN (label # <<>> /\ Head(label) = "/" /\ HasPagesPrefix(single)) =>
         pure.output = single

\* The label //pages/X has been normalized.
C27_Witness ==
  /\ env = "labels"
  /\ pure.applied
  /\ pure.input = <<"/", "/", "p", "a", "g", "e", "s", "/", "X">>

\* ------------------------------------------------------------------------
\* C28: deleteNote of a path without a document.
\* ------------------------------------------------------------------------

\* The handler of a deleteNote request runs on an open store, for a path that
\* is not empty and has no document, and the engine raises no error.
DeletesAbsentPath ==
  /\ Handles("deleteNote")
  /\ dbPromise = "db"
  /\ awaiting[NextContinuation(awaiting)].payload.path # <<>>
  /\ awaiting[NextContinuation(awaiting)].payload.path \notin DOMAIN pages
  /\ ~lastOp'.faulted

C29_AbsentLoadsNull ==
  (env = "service" /\ repository.last.op = "loadNote"
     /\ \A i \in 1..Len(repository.notes) : repository.notes[i].path # repository.last.path)
    => (repository.last.settled = "resolved" /\ repository.last.value = NullNote)

\* /pages/A was saved, then deleted, then loaded: null, with /pages/B still
\* stored.
C29_Witness ==
  /\ env = "service"
  /\ repository.last = [op |-> "loadNote", path |-> PathA, settled |-> "resolved",
                         value |-> NullNote]
  /\ repository.prev.op = "deleteNote"
  /\ repository.prev.path = PathA
  /\ repository.calls >= 3
  /\ Len(repository.notes) = 1
  /\ repository.notes[1].path = PathB

\* ------------------------------------------------------------------------
\* C30: searchNotes with a blank query.
\* ------------------------------------------------------------------------

BlankSearchRan ==
  /\ lastOp.type = "searchNotes"
  /\ Trim(AsText(lastOp.payload.query)) = <<>>

\* C30 as stated: a searchNotes request whose query is empty or whitespace is
\* answered ok with an empty list and executes no statement, in every state
\* of the store.
C30_Original ==
  BlankSearchRan =>
    /\ lastOp.ok
    /\ lastOp.answered
    /\ ~lastOp.faulted
    /\ SearchStatements(lastOp.payload) = 0
    /\ SearchResult(lastOp.payload) = "[]"

\* C30: on a database that was opened, a searchNotes request whose query is
\* empty, whitespace or not a string is answered ok with an empty list and
\* its handler executes no statement, whatever the store holds and also on a
\* corrupt search index; when the initialization failed it is answered
\* ok:false with "SQLite database is not available".
C30_BlankSearch ==
  BlankSearchRan =>
    /\ lastOp.answered
    /\ ~lastOp.faulted
    /\ dbPromise = "db" =>
         /\ lastOp.ok
         /\ SearchStatements(lastOp.payload) = 0
         /\ SearchResult(lastOp.payload) = "[]"
    /\ dbPromise # "db" =>
         /\ ~lastOp.ok
         /\ lastOp.error = "SQLite database is not available"

\* A search for " " has been answered ok on a store with documents whose
\* search index is corrupt.
C30_Witness ==
  /\ lastOp.type = "searchNotes"
  /\ lastOp.payload.query = <<" ">>
  /\ lastOp.ok
  /\ lastOp.answered
  /\ dbPromise = "db"
  /\ ftsState = "corrupt"
  /\ pages # EmptyPages

\* ------------------------------------------------------------------------
\* C31: the rows of loadNotes.
\* ------------------------------------------------------------------------

\* C31: loadNotes on an open store, when the engine raises no error, responds
\* ok; its rows are the stored documents, each exactly once with its path,
\* title, body and updatedAt, in ascending order of path, and the empty list
\* when the store holds no document.
C31_LoadNotesRows ==
  (lastOp.type = "loadNotes" /\ dbPromise = "db" /\ ~lastOp.faulted) =>
    LET rows == LoadNoteRows(Db) IN
      /\ lastOp.ok
      /\ Len(rows) = Cardinality(DOMAIN pages)
      /\ \A p \in DOMAIN pages :
           \E k \in 1..Len(rows) :
             /\ rows[k] = [path |-> p, title |-> pages[p].title, body |-> pages[p].body,
                           updatedAt |-> pages[p].updatedAt]
             /\ \A j \in 1..Len(rows) : rows[j].path = p => j = k
      /\ \A k \in 1..(Len(rows) - 1) : PathBefore(rows[k].path, rows[k + 1].path)
      /\ pages = EmptyPages => rows = <<>>

\* loadNotes has answered on a store of two documents, /pages/A before
\* /pages/B.
C31_Witness ==
  /\ lastOp.type = "loadNotes"
  /\ lastOp.ok
  /\ lastOp.answered
  /\ dbPromise = "db"
  /\ DOMAIN pages = {PathA, PathB}
  /\ LoadNoteRows(Db)[1].path = PathA
  /\ LoadNoteRows(Db)[2].path = PathB

\* loadNotes has answered ok on a store without documents.
C31_EmptyWitness ==
  /\ lastOp.type = "loadNotes"
  /\ lastOp.ok
  /\ dbPromise = "db"
  /\ pages = EmptyPages

\* ------------------------------------------------------------------------
\* C32: the effect of a cancel notice.
\* ------------------------------------------------------------------------

\* The step in which a cancelRequest message is received.
ReceivesCancel == cancelsSent' = cancelsSent + 1

\* What a cancel notice leaves alone: the responses, the initialization, the
\* store and the suspended requests.
CancelFrame ==
  /\ posted' = posted
  /\ dbPromise' = dbPromise
  /\ initStarts' = initStarts
  /\ pages' = pages /\ links' = links /\ fts' = fts /\ ftsState' = ftsState
  /\ awaiting' = awaiting
  /\ lastOp' = lastOp

ReceivesCancelledRequest ==
  /\ nextRequestId' = nextRequestId + 1
  /\ nextRequestId \in cancelledRequestIds

\* C33: a request whose id is in the cancelled set when it is dispatched
\* executes no storage statement and posts no response, now or later, and its
\* id is removed from the cancelled set; it is not suspended and starts no
\* initialization.
C33_CancelledAtDispatch ==
  [][/\ ReceivesCancelledRequest =>
          /\ posted' = posted
          /\ pages' = pages /\ links' = links /\ fts' = fts /\ ftsState' = ftsState
          /\ awaiting' = awaiting
          /\ dbPromise' = dbPromise
          /\ initStarts' = initStarts
          /\ lastOp' = lastOp
          /\ cancelledRequestIds' = cancelledRequestIds \ {nextRequestId}
     /\ \A n \in 1..MaxRequests :
          (n < nextRequestId /\ Responses(n) = {} /\ lastOp.id # n
             /\ \A i \in 1..Len(awaiting) : awaiting[i].id # n)
            => (Responses(n)' = {} /\ lastOp'.id # n)]_vars

\* Request 1 arrived after its cancel notice: it was dropped, request 2 ran
\* and was answered, and the set is empty again.
C33_Witness ==
  /\ 1 \in cancelEarly
  /\ Responses(1) = {}
  /\ lastOp.id = 2
  /\ Responses(2) # {}
  /\ cancelledRequestIds = {}
  /\ cancelsSent = 1
  /\ awaiting = <<>>

\* C34: a request that was received and is not waiting for its handler has a
\* response unless a cancel notice named its own id; a cancel notice for
\* another id withholds nothing.
C34_OnlyOwnIdSuppresses ==
  \A n \in 1..MaxRequests :
    (/\ n < nextRequestId
     /\ \A i \in 1..Len(awaiting) : awaiting[i].id # n
     /\ n \notin cancelNamed)
      => Cardinality(Responses(n)) = 1

\* Request 2 ran while the cancel notice of request 1 was in the set, and was
\* answered.
C34_Witness ==
  /\ cancelNamed = {1}
  /\ 1 \in cancelledRequestIds
  /\ lastOp.id = 2
  /\ lastOp.answered
  /\ Cardinality(Responses(2)) = 1

\* ------------------------------------------------------------------------
\* C35..C38: the promises, the entries, the cancel notices and the ids of
\* callWorker.
\* ------------------------------------------------------------------------

SettledCall(id) == id \in DOMAIN client.promises /\ client.promises[id] # "pending"

\* C35: every promise returned by callWorker settles in the end, by a
\* response, the timeout, a failed send or a worker error, also when the
\* worker never answers.
C35_EveryCallSettles ==
  \A id \in 1..MaxCalls : (id < client.nextRequestId) ~> SettledCall(id)

\* Three calls were sent, no response and no error came, and the timeouts
\* settled all of them.
C35_Witness ==
  /\ client.nextRequestId = MaxCalls + 1
  /\ client.errors = 0
  /\ \A id \in 1..MaxCalls : client.promises[id] = "SQLite worker timed out"
  /\ client.timers = {}
  /\ client.held = {1, 2, 3}

\* C36: a promise that is settled keeps what settled it, and pendingRequests
\* holds only ids whose promise is unsettled.
C36_SettledOnce ==
  [][/\ \A id \in DOMAIN client.promises :
          client.promises[id] # "pending" => client'.promises[id] = client.promises[id]
     /\ \A id \in client'.pendingRequests :
          id \in DOMAIN client'.promises /\ client'.promises[id] = "pending"]_vars

\* Every way a call ends has been seen, and no entry is left: call 1 was
\* answered, the send of call 2 failed, call 3 timed out.
C36_Witness ==
  /\ Len(client.promises) = 3
  /\ client.promises[1] \in {"resolved", "rejected"}
  /\ client.promises[2] = "post failed"
  /\ client.promises[3] = "SQLite worker timed out"
  /\ client.pendingRequests = {}

\* C37: a cancelRequest for id N is in the messages sent only after the
\* request N, and only when call N was settled by its timeout.
C37_CancelOnlyAfterTimeout ==
  \A i \in 1..Len(client.sent) :
    client.sent[i].type = "cancelRequest" =>
      /\ client.promises[client.sent[i].id] = "SQLite worker timed out"
      /\ \E j \in 1..(i - 1) :
           client.sent[j] = [id |-> client.sent[i].id, type |-> "request", targetId |-> 0]

\* The send of call 1 failed, and a cancel notice for id 1 was sent.
C37_Witness ==
  /\ client.promises = <<"post failed">>
  /\ client.sent = <<[id |-> 1, type |-> "cancelRequest", targetId |-> 1]>>
  /\ client.timers = {}

\* C38: callWorker gives each call the next id, starting at 1: the ids are
\* positive, each greater than the one before, and nextRequestId never goes
\* back, also after a worker error.
C38_IdsNeverReused ==
  [][/\ client'.nextRequestId >= client.nextRequestId
     /\ client.nextRequestId >= 1
     /\ client'.nextRequestId = Len(client'.promises) + 1
     /\ client'.last.event = "call" /\ client' # client =>
          /\ client'.last.id = client.nextRequestId
          /\ client'.nextRequestId = client.nextRequestId + 1
          /\ \A i \in 1..Len(client.sent) : client.sent[i].id < client'.last.id]_vars

\* Call 1 was ended by a worker error, and the call after it got id 2.
C38_Witness ==
  /\ client.errors = 1
  /\ client.promises[1] = "worker error"
  /\ client.last = [event |-> "call", id |-> 2]
  /\ client.nextRequestId = 3

\* ------------------------------------------------------------------------
\* C39: the results of useNoteSearch.
\* ------------------------------------------------------------------------

\* C39 as stated: the displayed results always belong to the most recently
\* issued query.
C39_Original ==
  (env = "hook" /\ noteSearch.results.by # 0) => noteSearch.results.by = noteSearch.latest

\* C39: the results are set only by the search of the most recently issued
\* query, so the search of an earlier query that completes after a later query
\* was issued never overwrites them; until the search of the latest query
\* completes, the results of an earlier query stay displayed.
C39_LatestOnlyWrites ==
  [][env = "hook" =>
       /\ noteSearch'.results # noteSearch.results =>
            /\ noteSearch'.results.by = noteSearch.latest
            /\ noteSearch'.latest = noteSearch.latest
       /\ noteSearch'.results.by >= noteSearch.results.by
       /\ noteSearch'.results.by <= noteSearch'.latest]_vars

\* The search of the first query completed after the second query was issued
\* and set nothing; the results are those of the second.
C39_Witness ==
  /\ env = "hook"
  /\ noteSearch.latest = 2
  /\ noteSearch.issued = <<<<"T">>, <<"A">>>>
  /\ noteSearch.stale = {1}
  /\ noteSearch.results = [by |-> 2, value |-> "remote"]
  /\ noteSearch.running = {}
  /\ noteSearch.debounce = 0

\* ---------------------------------------------------------------------------
\* C40

\* The segments of a result of normalizePath other than the root.
ResultSegments(result) == SplitAtSlashes(Tail(result))

\* A normalized path: it starts with a slash, ends with one only as the root,
\* has no empty, "." or ".." segment and none of the characters in controls.
IsNormalized(result, controls) ==
  /\ Len(result) > 0
  /\ result[1] = "/"
  /\ result # <<"/">> =>
       /\ result[Len(result)] # "/"
       /\ \A i \in 1..Len(ResultSegments(result)) :
            ResultSegments(result)[i] \notin {<<>>, <<".">>, <<".", ".">>}
  /\ \A i \in 1..Len(result) : result[i] \notin controls

\* normalizePath, short of the control characters above 0x1f: the result of
\* every path is normalized as far as the characters of code 0x1f or less go,
\* and normalizePath maps it to itself.
NormalizedUpToLowControls ==
  /\ pure.seen >= 1 => IsNormalized(pure.held, LowControls)
  /\ pure.seen = 2 => pure.output = pure.held

\* C40: normalizePath is idempotent, and the result of every path starts with
\* "/", has no trailing slash unless it is the root, and holds no empty
\* segment, no "." or ".." segment and no control character; a ".." that would
\* climb above the root is dropped, so no result lies outside the root.
C40_NormalizedPath ==
  /\ pure.seen >= 1 => IsNormalized(pure.held, ControlChars)
  /\ pure.seen = 2 => pure.output = pure.held

\* normalizePath was called twice on a path that holds a control character
\* above 0x1f, and the character is in the result.
C40_Witness ==
  /\ env = "paths"
  /\ pure.seen = 2
  /\ pure.input = <<"a", "/", ".", ".", "U+007F">>
  /\ pure.held = <<"/", "a", "/", ".", ".", "U+007F">>
  /\ pure.output = pure.held

\* A ".." above the root and a segment that is ".." only once it is sanitized
\* are both resolved inside the root.
ClimbsAboveRoot ==
  /\ env = "paths"
  /\ pure.seen = 2
  /\ pure.input \in {<<".", ".", "/", ".", ".">>, <<"a", "/", ".", "U+0001", ".">>,
                     <<".", ".", " ", "/", "a">>}
  /\ pure.held \in {<<"/">>, <<"/", "a">>}

====
